---- MODULE Spec2Model ----
(***************************************************************************)
(* A model of firebase-lucid: the entity mapper (Model) with its lifecycle *)
(* hooks (HookManager) and dirty tracking, the query builder's batched     *)
(* update/delete, and the preload manager against the lazy relations.      *)
(*                                                                         *)
(* The three parts act on separate state (the query builder only reads the *)
(* type's timestamps option and the clock), so each has a specification of *)
(* its own (SpecEntity, SpecBatch, SpecPreload) in which the variables of  *)
(* the other parts stay at their idle values.                              *)
(***************************************************************************)
EXTENDS Integers, Sequences, FiniteSets, TLC

VARIABLES
  \* ---- entity mapper (Model.ts, HookManager.ts) ----
  relNames,     \* keys of the type's static $relations
  timestamps,   \* static options.timestamps
  docs,         \* the entity's collection in the store: doc id -> data, or NoDoc
  hasInst,      \* whether an instance exists
  props,        \* the instance's own enumerable properties (id and data fields)
  original,     \* the instance's $original snapshot
  op,           \* the operation in progress: none, create, save, delete
  isNew,        \* save(): whether $original was empty at the call
  dirtyAtCall,  \* executeBeforeUpdate: $dirtyFields() captured for the context
  pc,           \* position: idle, before, write, after, done
  hooksLeft,    \* hooks still to call in the current phase
  trace,        \* hook invocations and store primitives of the operation, in order
  outcome,      \* none, resolved, rejected
  error,        \* what the promise rejected with
  consoleLog,   \* hooks whose error was caught and logged by console.error
  thrown,       \* hooks of the operation that threw, in order
  payload,      \* what the last store write was given
  now,          \* the clock behind Timestamp.now() and new Date()
  nextRef,      \* identities handed to the Date objects allocated so far
  hydratedFrom, \* the raw document the instance was last hydrated from
  mutated,      \* fields assigned since the instance was hydrated or saved
  opCount,      \* operations started
  \* ---- query builder: update() and delete() (QueryBuilder.ts) ----
  matching,     \* how many documents of the collection the builder's constraints match
  qbOp,         \* none, update, delete
  parallel,     \* options.parallel of the call
  qbPc,         \* idle, getDocs, loop, commit, parallel, done
  snapshot,     \* snapshot.docs, the matched documents in the store's order
  qbPayload,    \* update(): updateData, the payload built from partialData
  i,            \* executeBatches: the loop index
  batches,      \* the atomic batches opened so far: their operations and state
  singleWrites, \* documents given to updateDoc / deleteDoc in parallel mode
  applied,      \* documents whose write has taken effect in the store
  qbOutcome,    \* none, resolved, rejected
  qbError,      \* the store call whose error the promise rejected with
  qbResult,     \* what the call returned: NoResult, {count: n} or the number n
  qbCalls,      \* the functions the call has invoked: store functions, hooks
  \* ---- relations: lazy get() and PreloadManager (PreloadManager.ts, Relations/) ----
  relation,     \* the type of the preloaded relation: BelongsTo, HasMany, ManyToMany;
                \* NotDefined when the type has no relation of the registered name
  ownerKey,     \* BelongsTo: config.ownerKey || 'id'
  pivotFields,  \* ManyToMany: config.pivotFields
  models,       \* the owning entities that get() hydrated, in order
  relatedStore, \* the related type's collection, in the store's order
  pivotStore,   \* ManyToMany: the pivot collection
  plPc,         \* the preload: idle, pivots, related, done
  chunks,       \* the chunks of the running loop still to query
  allPivots,    \* loadManyToMany: the pivot rows fetched so far
  allRelated,   \* load*: the related entities fetched so far
  loaded,       \* per owning entity: what the preload put in $relations[name]
  lazy,         \* per owning entity: what the lazy relation.get() resolved with
  lazyNext,     \* the next owning entity to call relation.get() on
  plOutcome,    \* none, resolved, rejected
  plError,      \* what the preload rejected with
  plQueries,    \* the queries of the preload that the store has settled, in order
  lazyQueries,  \* the queries the last lazy relation.get() issued
  arrayKey,     \* BelongsToMany: the parent's array of related ids
  \* ---- ManyToMany attach / detach / sync / toggle (Relations/ManyToMany.ts) ----
  mmOp,         \* the call in progress or last made: none, attach, detach, sync, toggle
  mmArg,        \* its related ids: the relatedIds of sync, else the one relatedId
  mmPc,         \* idle, query (awaiting queryPivot), tasks (awaiting the store writes), done
  tasks,        \* the attach() and detach() calls running inside the call
  mmBefore,     \* the pivot collection when the call started
  mmOutcome,    \* none, resolved, rejected
  mmResult,     \* toggle: what it returned (none, attached, detached)
  mmCalls,      \* the number of calls that have settled
  mmPrev,       \* the related id the call before detached, if it was a detach that resolved
  \* ---- the query builder's constraint list and get() (QueryBuilder.ts) ----
  constraints,  \* this.constraints
  bdCall,       \* the method last called on the builder
  bdPc,         \* idle, getDocs (get() awaiting the store), done
  bdIssued,     \* the queries handed to getDocs, each the constraints it carried
  bdOutcome,    \* none, resolved, rejected, threw
  bdError,      \* none, or what the call threw or rejected with
  chained,      \* the constraints the caller has added through the chainable methods
  bdStarted,    \* per query handed to getDocs: the method that issued it, the caller's
                \* constraints then, whether a first() was awaiting the store
  firstPc,      \* first(): idle, awaiting (its get() awaits the store), done
  originalConstraints, \* first(): the copy of this.constraints it took
  firstOutcome, \* first(): none, resolved, rejected
  \* ---- the Database singleton (Database.ts) ----
  app,          \* this.app: NoHandle (null) or the handle initializeApp returned
  firestore,    \* this.firestore: NoHandle (null) or the handle getFirestore returned
  initialized,  \* this.initialized
  dbCreated,    \* the number of handles initializeApp has returned
  dbCall,       \* the method last called on db, initialize with its config
  dbOutcome,    \* none, returned, threw
  dbValue,      \* what the call returned or threw
  dbConsole     \* the console method the call used: none, warn, log, error

entVars == <<relNames, timestamps, docs, hasInst, props, original, op,
             isNew, dirtyAtCall, pc, hooksLeft, trace, outcome, error, consoleLog,
             thrown, payload, now, nextRef, hydratedFrom, mutated, opCount>>

qbVars == <<matching, qbOp, parallel, qbPc, snapshot, qbPayload, i, batches, singleWrites,
            applied, qbOutcome, qbError, qbResult, qbCalls>>

plVars == <<relation, ownerKey, pivotFields, models, relatedStore, pivotStore, plPc, chunks,
            allPivots, allRelated, loaded, lazy, lazyNext, plOutcome, plError, plQueries,
            lazyQueries, arrayKey>>

\* plVars without the pivot collection, which attach and detach write
plRest == <<relation, ownerKey, pivotFields, models, relatedStore, plPc, chunks,
            allPivots, allRelated, loaded, lazy, lazyNext, plOutcome, plError, plQueries,
            lazyQueries, arrayKey>>

mmVars == <<mmOp, mmArg, mmPc, tasks, mmBefore, mmOutcome, mmResult, mmCalls, mmPrev>>

bdVars == <<constraints, bdCall, bdPc, bdIssued, bdOutcome, bdError, chained, bdStarted,
            firstPc, originalConstraints, firstOutcome>>

dbVars == <<app, firestore, initialized, dbCreated, dbCall, dbOutcome, dbValue, dbConsole>>

vars == <<entVars, qbVars, plVars, mmVars, bdVars, dbVars>>

\* What an action of one part leaves alone: the other parts.
entOnly == UNCHANGED <<qbVars, plVars, mmVars, bdVars, dbVars>>
qbOnly == UNCHANGED <<entVars, plVars, mmVars, bdVars, dbVars>>
plOnly == UNCHANGED <<entVars, qbVars, mmVars, bdVars, dbVars>>
mmOnly == UNCHANGED <<entVars, qbVars, plRest, bdVars, dbVars>>
bdOnly == UNCHANGED <<entVars, qbVars, plVars, mmVars, dbVars>>
dbOnly == UNCHANGED <<entVars, qbVars, plVars, mmVars, bdVars>>

----------------------------------------------------------------------------
(* Bounds of the model *)

MaxOps == 3
MaxClock == 1
MaxChunks == 2
MaxModels == 11
MaxCalls == 2
MaxConstraints == 2
MaxGets == 2
MaxApps == 5

----------------------------------------------------------------------------
(* JavaScript values.  A value is a record [k, r, v]: k its kind, r the    *)
(* identity of an object (0 for a primitive), v its content.  === on two   *)
(* values is equality of the records: two Date objects of the same time    *)
(* but different identity are different.                                   *)

Undef == [k |-> "undef", r |-> 0, v |-> 0]
Absent == [k |-> "absent", r |-> 0, v |-> 0]
Getter == [k |-> "getter", r |-> 0, v |-> 0]
Prim(x) == [k |-> "prim", r |-> 0, v |-> x]
Ts(t) == [k |-> "ts", r |-> 0, v |-> t]
Date(ref, t) == [k |-> "date", r |-> ref, v |-> t]

Keys == {"id", "name", "status", "createdAt", "updatedAt", "posts"}
DataKeys == Keys \ {"id"}
DocIds == {1, 2}
NoDoc == [x \in Keys |-> Undef]
EmptyObj == [x \in Keys |-> Absent]

ObjKeys(o) == {x \in Keys : o[x] # Absent}

\* Reading instance[key]: a relation accessor returns this.$relations[name],
\* which nothing in this part of the model loads.
Read(o, key) == IF o[key] \in {Absent, Getter} THEN Undef ELSE o[key]

\* Object.assign(target, source) / { ...target, ...source }
Assign(target, source) ==
  [x \in Keys |-> IF source[x] # Absent THEN source[x] ELSE target[x]]

Without(o, ks) == [x \in Keys |-> IF x \in ks THEN Absent ELSE o[x]]

----------------------------------------------------------------------------
(* HookManager *)

executeBeforeCreate == <<"beforeSave", "beforeCreate">>
executeAfterCreate == <<"afterCreate", "afterSave">>
\* Faulty variant: the update's before-hooks in the other order
executeBeforeUpdate_swapped == <<"beforeUpdate", "beforeSave">>
executeBeforeUpdate == <<"beforeSave", "beforeUpdate">>
executeAfterUpdate == <<"afterUpdate", "afterSave">>
executeBeforeDelete == <<"beforeDelete">>
executeAfterDelete == <<"afterDelete">>

HookNames == {"beforeCreate", "afterCreate", "beforeSave", "afterSave",
              "beforeUpdate", "afterUpdate", "beforeDelete", "afterDelete"}
BeforeHooks == {"beforeCreate", "beforeSave", "beforeUpdate", "beforeDelete"}
AfterHooks == HookNames \ BeforeHooks
StoreWrites == {"addDoc", "setDoc", "updateDoc", "deleteDoc"}

----------------------------------------------------------------------------
(* Model: pure parts *)

\* Model.toJSON: the own enumerable properties that are not functions and do
\* not start with _ or $.  A relation accessor is own and enumerable, so its
\* key is kept with the value the getter returns.
toJSON(o) == [x \in Keys |-> IF o[x] = Absent THEN Absent ELSE Read(o, x)]

\* Model.$dirtyFields: the keys of $original whose current value !== the snapshot.
dirtyFields(o, orig) == {x \in ObjKeys(orig) : Read(o, x) # orig[x]}

\* Model.$isDirty() without a field.
isDirty(o, orig) == \E x \in ObjKeys(orig) : Read(o, x) # orig[x]

\* Timestamp.toDate(): a new Date object at every call.
toDate(val, ref) == Date(ref, val.v)

\* Model.setupRelationGetters: the guard of its `continue` compares a boolean
\* with undefined and is never true, so every relation name gets an accessor.
setupRelationGetters(o, rels) == [x \in Keys |-> IF x \in rels THEN Getter ELSE o[x]]

\* Model.hydrate(id, data): the instance's properties.  ref is the last
\* identity handed out before the call.
hydrateProps(id, data, rels, ref) ==
  LET assigned == Assign([EmptyObj EXCEPT !["id"] = Prim(id)], data)
      c == IF data["createdAt"].k = "ts"
             THEN [assigned EXCEPT !["createdAt"] = toDate(data["createdAt"], ref + 1)]
             ELSE assigned
      u == IF data["updatedAt"].k = "ts"
             THEN [c EXCEPT !["updatedAt"] = toDate(data["updatedAt"], ref + 2)]
             ELSE c
  IN setupRelationGetters(u, rels)

\* Model.hydrate(id, data): the $original snapshot, { id, ...data } with the
\* two timestamps converted by calls of toDate() of their own.
hydrateOriginal(id, data, ref) ==
  LET spread == Assign([EmptyObj EXCEPT !["id"] = Prim(id)], data)
      c == IF data["createdAt"].k = "ts"
             THEN [spread EXCEPT !["createdAt"] = toDate(data["createdAt"], ref + 3)]
             ELSE spread
  IN IF data["updatedAt"].k = "ts"
       THEN [c EXCEPT !["updatedAt"] = toDate(data["updatedAt"], ref + 4)]
       ELSE c

----------------------------------------------------------------------------
(* The entity mapper as a state machine.  One operation runs at a time; an *)
(* operation is a call, its before-hooks, its store write, its after-hooks *)
(* and its return, each await a step.                                      *)

\* Documents the collection may hold at the start.
InitDocs ==
  { [x \in Keys |->
       CASE x = "name" -> n
         [] x = "status" -> s
         [] x \in {"createdAt", "updatedAt"} -> t
         [] x = "posts" -> p
         [] OTHER -> Absent]
    : n \in {Prim(1)}, s \in {Absent, Prim(1)},
      t \in {Absent, Ts(0)}, p \in {Absent, Prim(1)} }

\* Arguments of create(data) and of new Model() followed by merge(data).
CreateData ==
  { [x \in Keys |-> CASE x = "name" -> Prim(1) [] x = "status" -> s [] OTHER -> Absent]
    : s \in {Absent, Prim(2)} }
NewData ==
  { [x \in Keys |-> CASE x = "name" -> Prim(1) [] x = "id" -> n [] OTHER -> Absent]
    : n \in {Absent, Prim(1)} }

Idle == pc \in {"idle", "done"}

HasUndef(o) == \E x \in Keys : o[x] = Undef

\* No attach, detach, sync or toggle called.
IdleMm ==
  /\ mmOp = "none"
  /\ mmArg = <<>>
  /\ mmPc = "idle"
  /\ tasks = <<>>
  /\ mmBefore = <<>>
  /\ mmOutcome = "none"
  /\ mmResult = "none"
  /\ mmCalls = 0
  /\ mmPrev = "none"

\* A builder fresh from Model.query(), nothing called on it.
IdleBd ==
  /\ constraints = <<>>
  /\ bdCall = "none"
  /\ bdPc = "idle"
  /\ bdIssued = <<>>
  /\ bdOutcome = "none"
  /\ bdError = "none"
  /\ chained = <<>>
  /\ bdStarted = <<>>
  /\ firstPc = "idle"
  /\ originalConstraints = <<>>
  /\ firstOutcome = "none"

\* The singleton as constructed, no method of it called.
IdleDb ==
  /\ app = 0
  /\ firestore = 0
  /\ initialized = FALSE
  /\ dbCreated = 0
  /\ dbCall = "none"
  /\ dbOutcome = "none"
  /\ dbValue = "none"
  /\ dbConsole = "none"

\* No owning entity fetched, no relation resolved.
IdlePl ==
  /\ relation = "BelongsTo"
  /\ ownerKey = "id"
  /\ pivotFields = <<>>
  /\ models = <<>>
  /\ relatedStore = <<>>
  /\ pivotStore = <<>>
  /\ plPc = "idle"
  /\ chunks = <<>>
  /\ allPivots = <<>>
  /\ allRelated = <<>>
  /\ loaded = <<>>
  /\ lazy = <<>>
  /\ lazyNext = 1
  /\ plOutcome = "none"
  /\ plError = "none"
  /\ plQueries = <<>>
  /\ lazyQueries = <<>>
  /\ arrayKey = <<>>

\* No call of the query builder started.
IdleQb ==
  /\ matching = 0
  /\ qbOp = "none"
  /\ parallel = FALSE
  /\ qbPc = "idle"
  /\ snapshot = <<>>
  /\ qbPayload = EmptyObj
  /\ i = 0
  /\ batches = <<>>
  /\ singleWrites = {}
  /\ applied = {}
  /\ qbOutcome = "none"
  /\ qbError = "none"
  /\ qbResult = [shape |-> "none", count |-> 0]
  /\ qbCalls = {}

\* No instance, no operation started.
IdleEnt ==
  /\ hasInst = FALSE
  /\ props = EmptyObj
  /\ original = EmptyObj
  /\ op = "none"
  /\ isNew = FALSE
  /\ dirtyAtCall = {}
  /\ pc = "idle"
  /\ hooksLeft = <<>>
  /\ trace = <<>>
  /\ outcome = "none"
  /\ error = "none"
  /\ consoleLog = <<>>
  /\ thrown = <<>>
  /\ payload = EmptyObj
  /\ now = 0
  /\ nextRef = 0
  /\ hydratedFrom = NoDoc
  /\ mutated = {}
  /\ opCount = 0

InitEntity ==
  /\ relNames \in {{}, {"posts"}}
  /\ timestamps \in BOOLEAN
  /\ docs \in {[d \in DocIds |-> IF d = 1 THEN x ELSE NoDoc] : x \in InitDocs \cup {NoDoc}}
  /\ IdleEnt
  /\ IdleQb
  /\ IdlePl
  /\ IdleMm
  /\ IdleBd
  /\ IdleDb

\* Model.find(id) of an existing document: getDoc, then hydrate.
Find(id) ==
  /\ Idle
  /\ opCount < MaxOps
  /\ docs[id] # NoDoc
  /\ hasInst' = TRUE
  /\ props' = hydrateProps(id, docs[id], relNames, nextRef)
  /\ original' = hydrateOriginal(id, docs[id], nextRef)
  /\ nextRef' = nextRef + 4
  /\ hydratedFrom' = docs[id]
  /\ mutated' = {}
  /\ op' = "none"
  /\ pc' = "idle"
  /\ trace' = <<>>
  /\ outcome' = "none"
  /\ error' = "none"
  /\ consoleLog' = <<>>
  /\ thrown' = <<>>
  /\ opCount' = opCount + 1
  /\ UNCHANGED <<relNames, timestamps, docs, isNew, dirtyAtCall, hooksLeft, payload, now>>
  /\ entOnly

\* new ModelClass() followed by merge(data): an instance with an empty $original.
New(data) ==
  /\ Idle
  /\ opCount < MaxOps
  /\ hasInst' = TRUE
  /\ props' = Assign(EmptyObj, data)
  /\ original' = EmptyObj
  /\ hydratedFrom' = NoDoc
  /\ mutated' = {}
  /\ op' = "none"
  /\ pc' = "idle"
  /\ trace' = <<>>
  /\ outcome' = "none"
  /\ error' = "none"
  /\ consoleLog' = <<>>
  /\ thrown' = <<>>
  /\ opCount' = opCount + 1
  /\ UNCHANGED <<relNames, timestamps, docs, isNew, dirtyAtCall, hooksLeft, payload, now,
                 nextRef>>
  /\ entOnly

\* instance.field = value (or merge({field: value})) with a value the field
\* does not hold.  A relation accessor has no setter and is not assigned.
Mutate(f, val) ==
  /\ Idle
  /\ hasInst
  /\ opCount < MaxOps
  /\ props[f] # Getter
  /\ props[f] # Prim(val)
  /\ props' = [props EXCEPT ![f] = Prim(val)]
  /\ mutated' = IF hydratedFrom = NoDoc THEN mutated
                ELSE IF Prim(val) # hydratedFrom[f] THEN mutated \cup {f}
                ELSE mutated \ {f}
  /\ opCount' = opCount + 1
  /\ UNCHANGED <<relNames, timestamps, docs, hasInst, original, op, isNew, dirtyAtCall, pc,
                 hooksLeft, trace, outcome, error, consoleLog, thrown, payload, now, nextRef,
                 hydratedFrom>>
  /\ entOnly

\* Time passes between operations.
Tick ==
  /\ Idle
  /\ now < MaxClock
  /\ now' = now + 1
  /\ UNCHANGED <<relNames, timestamps, docs, hasInst, props, original, op, isNew,
                 dirtyAtCall, pc, hooksLeft, trace, outcome, error, consoleLog, thrown, payload,
                 nextRef, hydratedFrom, mutated, opCount>>
  /\ entOnly

\* Model.create(data), up to its first await: new instance, Object.assign.
CallCreate(data) ==
  /\ Idle
  /\ opCount < MaxOps
  /\ hasInst' = FALSE
  /\ props' = Assign(EmptyObj, data)
  /\ original' = EmptyObj
  /\ hydratedFrom' = NoDoc
  /\ mutated' = {}
  /\ op' = "create"
  /\ isNew' = FALSE
  /\ dirtyAtCall' = {}
  /\ pc' = "before"
  /\ hooksLeft' = executeBeforeCreate
  /\ trace' = <<>>
  /\ outcome' = "none"
  /\ error' = "none"
  /\ consoleLog' = <<>>
  /\ thrown' = <<>>
  /\ payload' = EmptyObj
  /\ opCount' = opCount + 1
  /\ UNCHANGED <<relNames, timestamps, docs, now, nextRef>>
  /\ entOnly

\* Model.createWithId(id, data), up to its await of setDoc: { ...data }
\* stamped and without id.  No hook is called on the way.
CallCreateWithId(id, data, tick) ==
  /\ Idle
  /\ opCount < MaxOps
  /\ now + tick <= MaxClock
  /\ LET stamped == IF timestamps
                      THEN [data EXCEPT !["createdAt"] = Ts(now),
                                        !["updatedAt"] = Ts(now + tick)]
                      ELSE data
     IN payload' = Without(stamped, {"id"})
  /\ hasInst' = FALSE
  /\ props' = [EmptyObj EXCEPT !["id"] = Prim(id)]
  /\ original' = EmptyObj
  /\ hydratedFrom' = NoDoc
  /\ mutated' = {}
  /\ op' = "createWithId"
  /\ isNew' = FALSE
  /\ dirtyAtCall' = {}
  /\ pc' = "write"
  /\ hooksLeft' = <<>>
  /\ trace' = <<>>
  /\ outcome' = "none"
  /\ error' = "none"
  /\ consoleLog' = <<>>
  /\ thrown' = <<>>
  /\ now' = now + tick
  /\ opCount' = opCount + 1
  /\ UNCHANGED <<relNames, timestamps, docs, nextRef>>
  /\ entOnly

\* Model.createWithId: setDoc resolves (it creates the document or replaces
\* the one stored under the id) and the call returns hydrate(id, docData).
WriteCreateWithId ==
  /\ pc = "write"
  /\ op = "createWithId"
  /\ ~HasUndef(payload)
  /\ LET id == props["id"].v
     IN /\ docs' = [docs EXCEPT ![id] = payload]
        /\ props' = hydrateProps(id, payload, relNames, nextRef)
        /\ original' = hydrateOriginal(id, payload, nextRef)
  /\ nextRef' = nextRef + 4
  /\ hydratedFrom' = payload
  /\ hasInst' = TRUE
  /\ trace' = Append(trace, "setDoc")
  /\ outcome' = "resolved"
  /\ pc' = "done"
  /\ UNCHANGED <<relNames, timestamps, op, isNew, dirtyAtCall, hooksLeft, error, consoleLog,
                 thrown, payload, now, mutated, opCount>>
  /\ entOnly

\* Model.save(), up to its first await.
CallSave ==
  /\ Idle
  /\ hasInst
  /\ opCount < MaxOps
  /\ op' = "save"
  /\ trace' = <<>>
  /\ consoleLog' = <<>>
  /\ thrown' = <<>>
  /\ payload' = EmptyObj
  /\ hydratedFrom' = NoDoc
  /\ opCount' = opCount + 1
  /\ IF Read(props, "id") = Undef
       THEN /\ outcome' = "rejected"
            /\ error' = "MissingIdentifier"
            /\ pc' = "done"
            /\ hooksLeft' = <<>>
            /\ UNCHANGED <<isNew, dirtyAtCall>>
       ELSE /\ outcome' = "none"
            /\ error' = "none"
            /\ pc' = "before"
            /\ isNew' = (ObjKeys(original) = {})
            /\ dirtyAtCall' = dirtyFields(props, original)
            /\ hooksLeft' = IF ObjKeys(original) = {} THEN executeBeforeCreate
                            ELSE executeBeforeUpdate
  /\ UNCHANGED <<relNames, timestamps, docs, hasInst, props, original, now, nextRef, mutated>>
  /\ entOnly

\* Model.refresh(), up to its await of find(this.id).
CallRefresh ==
  /\ Idle
  /\ hasInst
  /\ opCount < MaxOps
  /\ op' = "refresh"
  /\ trace' = <<>>
  /\ consoleLog' = <<>>
  /\ thrown' = <<>>
  /\ payload' = EmptyObj
  /\ hydratedFrom' = NoDoc
  /\ hooksLeft' = <<>>
  /\ opCount' = opCount + 1
  /\ IF Read(props, "id") = Undef
       THEN /\ outcome' = "rejected"
            /\ error' = "MissingIdentifier"
            /\ pc' = "done"
       ELSE /\ outcome' = "none"
            /\ error' = "none"
            /\ pc' = "getDoc"
  /\ UNCHANGED <<relNames, timestamps, docs, hasInst, props, original, isNew, dirtyAtCall,
                 now, nextRef, mutated>>
  /\ entOnly

\* Model.refresh: find() resolves with null, the document is gone.
RefreshMissing ==
  /\ pc = "getDoc"
  /\ docs[Read(props, "id").v] = NoDoc
  /\ outcome' = "rejected"
  /\ error' = "EntityNotFound"
  /\ pc' = "done"
  /\ UNCHANGED <<relNames, timestamps, docs, hasInst, props, original, op, isNew,
                 dirtyAtCall, hooksLeft, trace, consoleLog, thrown, payload, now, nextRef,
                 hydratedFrom, mutated, opCount>>
  /\ entOnly

\* Model.refresh: find() resolves with the hydrated document, then
\* Object.assign(this, fresh).  It copies the own enumerable properties of
\* fresh in their order: $original among the class fields first, then id and
\* the document's fields, a relation accessor where its name was first
\* defined (last, unless the document has a field of that name), read
\* through its getter.  Assigning to a property of this that is an accessor
\* without a setter throws a TypeError, with the properties before it
\* already copied.
RefreshFound ==
  /\ pc = "getDoc"
  /\ docs[Read(props, "id").v] # NoDoc
  /\ LET id == Read(props, "id").v
         fresh == hydrateProps(id, docs[id], relNames, nextRef)
         source == toJSON(fresh)
         blocked == {x \in ObjKeys(source) : props[x] = Getter}
         early == {x \in blocked : docs[id][x] # Absent}
     IN /\ original' = hydrateOriginal(id, docs[id], nextRef)
        /\ IF blocked = {}
             THEN /\ props' = Assign(props, source)
                  /\ outcome' = "resolved"
                  /\ error' = "none"
                  /\ hydratedFrom' = docs[id]
                  /\ mutated' = {x \in mutated : source[x] = Absent}
             ELSE /\ \E copied \in SUBSET (ObjKeys(source) \ blocked) :
                       /\ "id" \in copied
                       /\ early = {} => copied = ObjKeys(source) \ blocked
                       /\ props' = Assign(props, Without(source, Keys \ copied))
                  /\ outcome' = "rejected"
                  /\ error' = "TypeError"
                  /\ UNCHANGED <<hydratedFrom, mutated>>
  /\ nextRef' = nextRef + 4
  /\ pc' = "done"
  /\ UNCHANGED <<relNames, timestamps, docs, hasInst, op, isNew, dirtyAtCall, hooksLeft,
                 trace, consoleLog, thrown, payload, now, opCount>>
  /\ entOnly

\* Model.delete(), up to its first await.
CallDelete ==
  /\ Idle
  /\ hasInst
  /\ opCount < MaxOps
  /\ op' = "delete"
  /\ trace' = <<>>
  /\ consoleLog' = <<>>
  /\ thrown' = <<>>
  /\ payload' = EmptyObj
  /\ hydratedFrom' = NoDoc
  /\ opCount' = opCount + 1
  /\ IF Read(props, "id") = Undef
       THEN /\ outcome' = "rejected"
            /\ error' = "MissingIdentifier"
            /\ pc' = "done"
            /\ hooksLeft' = <<>>
       ELSE /\ outcome' = "none"
            /\ error' = "none"
            /\ pc' = "before"
            /\ hooksLeft' = executeBeforeDelete
  /\ UNCHANGED <<relNames, timestamps, docs, hasInst, props, original, isNew, dirtyAtCall,
                 now, nextRef, mutated>>
  /\ entOnly

\* HookManager.callHook inside executeBefore*: the hook returns.
BeforeHookReturns ==
  /\ pc = "before"
  /\ trace' = Append(trace, Head(hooksLeft))
  /\ hooksLeft' = Tail(hooksLeft)
  /\ pc' = IF Tail(hooksLeft) = <<>> THEN "write" ELSE "before"
  /\ UNCHANGED <<relNames, timestamps, docs, hasInst, props, original, op, isNew,
                 dirtyAtCall, outcome, error, consoleLog, thrown, payload, now, nextRef,
                 hydratedFrom, mutated, opCount>>
  /\ entOnly

\* Faulty variant: a throwing before-hook handled the way an after-hook is: caught,
\* logged, the remaining hooks skipped and the operation carried on.
BeforeHookThrows_swallowed ==
  /\ pc = "before"
  /\ trace' = Append(trace, Head(hooksLeft))
  /\ consoleLog' = Append(consoleLog, Head(hooksLeft))
  /\ thrown' = Append(thrown, Head(hooksLeft))
  /\ hooksLeft' = <<>>
  /\ pc' = "write"
  /\ UNCHANGED <<relNames, timestamps, docs, hasInst, props, original, op, isNew,
                 dirtyAtCall, outcome, error, payload, now, nextRef, hydratedFrom,
                 mutated, opCount>>
  /\ entOnly

\* HookManager.callHook inside executeBefore*: the hook throws, nothing
\* catches it, and the operation rejects with the hook's error.
BeforeHookThrows ==
  /\ pc = "before"
  /\ trace' = Append(trace, Head(hooksLeft))
  /\ hooksLeft' = <<>>
  /\ outcome' = "rejected"
  /\ error' = Head(hooksLeft)
  /\ thrown' = Append(thrown, Head(hooksLeft))
  /\ pc' = "done"
  /\ UNCHANGED <<relNames, timestamps, docs, hasInst, props, original, op, isNew,
                 dirtyAtCall, consoleLog, payload, now, nextRef, hydratedFrom, mutated,
                 opCount>>
  /\ entOnly

\* Model.create from toJSON() to the await of addDoc, and on to the refresh
\* of $original: the store accepts the document under a fresh id.  The two
\* calls of Timestamp.now() may fall on either side of a clock tick.
WriteCreate(id, tick) ==
  /\ pc = "write"
  /\ op = "create"
  /\ docs[id] = NoDoc
  /\ now + tick <= MaxClock
  /\ LET json == toJSON(props)
         stamped == IF timestamps
                      THEN [json EXCEPT !["createdAt"] = Ts(now),
                                        !["updatedAt"] = Ts(now + tick)]
                      ELSE json
         docData == Without(stamped, {"id"})
         withId == [props EXCEPT !["id"] = Prim(id)]
         inst == IF timestamps
                   THEN [withId EXCEPT
                           !["createdAt"] = toDate(docData["createdAt"], nextRef + 1),
                           !["updatedAt"] = toDate(docData["updatedAt"], nextRef + 2)]
                   ELSE withId
     IN /\ ~HasUndef(docData)
        /\ docs' = [docs EXCEPT ![id] = docData]
        /\ payload' = docData
        /\ props' = inst
        /\ original' = [toJSON(inst) EXCEPT !["id"] = inst["id"]]
  /\ trace' = Append(trace, "addDoc")
  /\ now' = now + tick
  /\ nextRef' = nextRef + 2
  /\ pc' = "after"
  /\ hooksLeft' = executeAfterCreate
  /\ UNCHANGED <<relNames, timestamps, hasInst, op, isNew, dirtyAtCall, outcome, error,
                 consoleLog, thrown, hydratedFrom, mutated, opCount>>
  /\ entOnly

\* What Model.save hands to updateDoc: toJSON() with updatedAt stamped when
\* timestamps are on, minus id and createdAt.
saveUpdateData(o, stamp, t) ==
  LET json == toJSON(o)
      stamped == IF stamp THEN [json EXCEPT !["updatedAt"] = Ts(t)] ELSE json
  IN Without(stamped, {"id", "createdAt"})

\* Model.save: this.updatedAt = new Date(), assigned before the await of updateDoc.
saveTouch(o, stamp, ref, t) ==
  IF stamp THEN [o EXCEPT !["updatedAt"] = Date(ref, t)] ELSE o

\* Faulty variant: save() that does not refresh $original after updateDoc
WriteSave_staleOriginal(tick) ==
  /\ pc = "write"
  /\ op = "save"
  /\ now + tick <= MaxClock
  /\ LET id == Read(props, "id").v
         updateData == saveUpdateData(props, timestamps, now)
         inst == saveTouch(props, timestamps, nextRef + 1, now + tick)
     IN /\ id \in DocIds
        /\ docs[id] # NoDoc
        /\ ~HasUndef(updateData)
        /\ docs' = [docs EXCEPT ![id] = Assign(@, updateData)]
        /\ payload' = updateData
        /\ props' = inst
        /\ UNCHANGED original
  /\ trace' = Append(trace, "updateDoc")
  /\ now' = now + tick
  /\ nextRef' = nextRef + 1
  /\ mutated' = {}
  /\ pc' = "after"
  /\ hooksLeft' = IF isNew THEN executeAfterCreate ELSE executeAfterUpdate
  /\ UNCHANGED <<relNames, timestamps, hasInst, op, isNew, dirtyAtCall, outcome, error,
                 consoleLog, thrown, hydratedFrom, opCount>>
  /\ entOnly

\* Model.save from toJSON() to the refresh of $original: updateDoc resolves.
\* The store's update needs an existing document and no undefined value.
WriteSave(tick) ==
  /\ pc = "write"
  /\ op = "save"
  /\ now + tick <= MaxClock
  /\ LET id == Read(props, "id").v
         updateData == saveUpdateData(props, timestamps, now)
         inst == saveTouch(props, timestamps, nextRef + 1, now + tick)
     IN /\ id \in DocIds
        /\ docs[id] # NoDoc
        /\ ~HasUndef(updateData)
        /\ docs' = [docs EXCEPT ![id] = Assign(@, updateData)]
        /\ payload' = updateData
        /\ props' = inst
        /\ original' = [toJSON(inst) EXCEPT !["id"] = inst["id"]]
  /\ trace' = Append(trace, "updateDoc")
  /\ now' = now + tick
  /\ nextRef' = nextRef + 1
  /\ mutated' = {}
  /\ pc' = "after"
  /\ hooksLeft' = IF isNew THEN executeAfterCreate ELSE executeAfterUpdate
  /\ UNCHANGED <<relNames, timestamps, hasInst, op, isNew, dirtyAtCall, outcome, error,
                 consoleLog, thrown, hydratedFrom, opCount>>
  /\ entOnly

\* Model.delete: deleteDoc resolves (deleting a missing document succeeds).
WriteDelete ==
  /\ pc = "write"
  /\ op = "delete"
  /\ LET id == Read(props, "id").v
     IN /\ id \in DocIds
        /\ docs' = [docs EXCEPT ![id] = NoDoc]
  /\ trace' = Append(trace, "deleteDoc")
  /\ pc' = "after"
  /\ hooksLeft' = executeAfterDelete
  /\ UNCHANGED <<relNames, timestamps, hasInst, props, original, op, isNew, dirtyAtCall,
                 outcome, error, consoleLog, thrown, payload, now, nextRef, hydratedFrom, mutated,
                 opCount>>
  /\ entOnly

\* The store primitive rejects (or throws on its argument): the operation
\* rejects with the store's error and nothing after the await runs.  save()
\* has assigned this.updatedAt by then.
WriteFails ==
  /\ pc = "write"
  /\ trace' = Append(trace, CASE op = "create" -> "addDoc"
                              [] op = "createWithId" -> "setDoc"
                              [] op = "save" -> "updateDoc"
                              [] OTHER -> "deleteDoc")
  /\ IF op = "save"
       THEN /\ props' = saveTouch(props, timestamps, nextRef + 1, now)
            /\ payload' = saveUpdateData(props, timestamps, now)
            /\ nextRef' = nextRef + 1
       ELSE UNCHANGED <<props, payload, nextRef>>
  /\ outcome' = "rejected"
  /\ error' = "storeError"
  /\ pc' = "done"
  /\ hooksLeft' = <<>>
  /\ UNCHANGED <<relNames, timestamps, docs, hasInst, original, op, isNew, dirtyAtCall,
                 consoleLog, thrown, now, hydratedFrom, mutated, opCount>>
  /\ entOnly

\* HookManager.callHook inside the try of executeAfter*: the hook returns.
AfterHookReturns ==
  /\ pc = "after"
  /\ hooksLeft # <<>>
  /\ trace' = Append(trace, Head(hooksLeft))
  /\ hooksLeft' = Tail(hooksLeft)
  /\ UNCHANGED <<relNames, timestamps, docs, hasInst, props, original, op, isNew,
                 dirtyAtCall, pc, outcome, error, consoleLog, thrown, payload, now, nextRef,
                 hydratedFrom, mutated, opCount>>
  /\ entOnly

\* Faulty variant: executeAfter* without its try/catch: the hook's error rejects
\* the operation.
AfterHookThrows_propagates ==
  /\ pc = "after"
  /\ hooksLeft # <<>>
  /\ trace' = Append(trace, Head(hooksLeft))
  /\ thrown' = Append(thrown, Head(hooksLeft))
  /\ hooksLeft' = <<>>
  /\ outcome' = "rejected"
  /\ error' = Head(hooksLeft)
  /\ pc' = "done"
  /\ UNCHANGED <<relNames, timestamps, docs, hasInst, props, original, op, isNew,
                 dirtyAtCall, consoleLog, payload, now, nextRef, hydratedFrom, mutated,
                 opCount>>
  /\ entOnly

\* HookManager.callHook inside the try of executeAfter*: the hook throws,
\* the catch logs the error and the rest of the try block is skipped.
AfterHookThrows ==
  /\ pc = "after"
  /\ hooksLeft # <<>>
  /\ trace' = Append(trace, Head(hooksLeft))
  /\ consoleLog' = Append(consoleLog, Head(hooksLeft))
  /\ thrown' = Append(thrown, Head(hooksLeft))
  /\ hooksLeft' = <<>>
  /\ UNCHANGED <<relNames, timestamps, docs, hasInst, props, original, op, isNew,
                 dirtyAtCall, pc, outcome, error, payload, now, nextRef, hydratedFrom,
                 mutated, opCount>>
  /\ entOnly

\* The operation's return after executeAfter*: the promise resolves, and
\* create() hands its instance to the caller.
Return ==
  /\ pc = "after"
  /\ hooksLeft = <<>>
  /\ outcome' = "resolved"
  /\ pc' = "done"
  /\ hasInst' = (hasInst \/ op = "create")
  /\ UNCHANGED <<relNames, timestamps, docs, props, original, op, isNew, dirtyAtCall,
                 hooksLeft, trace, error, consoleLog, thrown, payload, now, nextRef, hydratedFrom,
                 mutated, opCount>>
  /\ entOnly

NextEntity ==
  \/ \E id \in DocIds : Find(id)
  \/ \E data \in NewData : New(data)
  \/ \E f \in {"name", "status"}, val \in {1, 2} : Mutate(f, val)
  \/ Tick
  \/ \E data \in CreateData : CallCreate(data)
  \/ \E id \in DocIds, data \in CreateData, tick \in {0, 1} : CallCreateWithId(id, data, tick)
  \/ WriteCreateWithId
  \/ CallSave
  \/ CallRefresh
  \/ RefreshMissing
  \/ RefreshFound
  \/ CallDelete
  \/ BeforeHookReturns
  \/ BeforeHookThrows
  \/ \E id \in DocIds, tick \in {0, 1} : WriteCreate(id, tick)
  \/ \E tick \in {0, 1} : WriteSave(tick)
  \/ WriteDelete
  \/ WriteFails
  \/ AfterHookReturns
  \/ AfterHookThrows
  \/ Return

SpecEntity == InitEntity /\ [][NextEntity]_vars

----------------------------------------------------------------------------
(* Claims about the entity mapper *)

Contains(seq, e) == \E n \in 1..Len(seq) : seq[n] = e
IndexOf(seq, e) == CHOOSE n \in 1..Len(seq) : seq[n] = e
ElemsOf(seq) == {seq[n] : n \in 1..Len(seq)}

\* C1: when no hook throws, a resolved create() has called exactly
\* beforeSave, beforeCreate, afterCreate, afterSave, a resolved save() of an
\* instance with a non-empty $original exactly beforeSave, beforeUpdate,
\* afterUpdate, afterSave, and a resolved delete() exactly beforeDelete,
\* afterDelete, with the store write (addDoc, updateDoc, deleteDoc) between
\* the last before-hook and the first after-hook.
C1_HookOrder ==
  (outcome = "resolved" /\ thrown = <<>>) =>
    /\ op = "create" =>
         trace = <<"beforeSave", "beforeCreate", "addDoc", "afterCreate", "afterSave">>
    /\ (op = "save" /\ ~isNew) =>
         trace = <<"beforeSave", "beforeUpdate", "updateDoc", "afterUpdate", "afterSave">>
    /\ op = "delete" =>
         trace = <<"beforeDelete", "deleteDoc", "afterDelete">>

C1_Witness ==
  /\ outcome = "resolved"
  /\ thrown = <<>>
  /\ op = "save"
  /\ ~isNew
  /\ Len(trace) = 5

\* C2: once a before-hook has thrown, the operation is rejected with that
\* hook's error, the throwing hook is the last thing the operation did, and
\* no store write was issued.
C2_BeforeHookAborts ==
  \A h \in ElemsOf(thrown) \cap BeforeHooks :
    /\ outcome = "rejected"
    /\ error = h
    /\ pc = "done"
    /\ trace[Len(trace)] = h
    /\ ElemsOf(trace) \cap StoreWrites = {}
    /\ hooksLeft = <<>>

C2_Witness ==
  /\ op = "save"
  /\ thrown = <<"beforeUpdate">>
  /\ outcome = "rejected"

\* The store holds what the operation's write left there.
WriteStands ==
  LET id == Read(props, "id").v
  IN CASE op = "create" -> docs[id] = payload
       [] op = "save" -> Assign(docs[id], payload) = docs[id]
       [] op = "delete" -> docs[id] = NoDoc
       [] OTHER -> FALSE

\* C3: once an after-hook has thrown, its error is in the console log, the
\* operation is not rejected and ends resolved, and the write issued before
\* the hook still stands in the store.
C3_AfterHookIsolated ==
  \A h \in ElemsOf(thrown) \cap AfterHooks :
    /\ Contains(consoleLog, h)
    /\ outcome # "rejected"
    /\ error = "none"
    /\ pc = "done" => outcome = "resolved"
    /\ ElemsOf(trace) \cap StoreWrites # {}
    /\ WriteStands

C3_Witness ==
  /\ op = "save"
  /\ thrown = <<"afterUpdate">>
  /\ outcome = "resolved"

\* C10: for a hydrated instance, dirtyFields() is exactly the set of fields
\* assigned a value other than the persisted one since hydration (none right
\* after hydration, where isDirty() is then false), and isDirty() is true
\* exactly when that set is not empty.
C10_DirtyTracking ==
  (hasInst /\ hydratedFrom # NoDoc) =>
    /\ dirtyFields(props, original) = mutated
    /\ isDirty(props, original) <=> (mutated # {})

----------------------------------------------------------------------------
(* QueryBuilder.update / delete / executeBatches *)

BATCH_SIZE == 500

Min(a, b) == IF a < b THEN a ELSE b

\* The sizes of the query's result the model tries: none, one, and one less
\* than, exactly and one more than every multiple of the batch size.
DocCounts ==
  {0, 1} \cup {k * BATCH_SIZE + d : k \in 1..MaxChunks, d \in {-1, 0, 1}}

\* Arguments of update(partialData).
PartialData ==
  { [x \in Keys |->
       CASE x = "status" -> Prim(2)
         [] x = "id" -> d
         [] x = "createdAt" -> c
         [] OTHER -> Absent]
    : d \in {Absent, Prim(1)}, c \in {Absent, Ts(0)} }

\* Faulty variant: an update payload that keeps the caller's createdAt
buildUpdateData_keepsCreatedAt(data, stamp, t) ==
  LET stamped == IF stamp THEN [data EXCEPT !["updatedAt"] = Ts(t)] ELSE data
  IN Without(stamped, {"id"})

\* QueryBuilder.update, step 2: { ...data }, updatedAt stamped unless the
\* type's options say timestamps: false, then id and createdAt deleted.
buildUpdateData(data, stamp, t) ==
  LET stamped == IF stamp THEN [data EXCEPT !["updatedAt"] = Ts(t)] ELSE data
  IN Without(stamped, {"id", "createdAt"})

\* Faulty variant: a chunk that runs one document into the next chunk
batchDocs_overlap(docsSeq, from) ==
  SubSeq(docsSeq, from + 1, Min(from + BATCH_SIZE + 1, Len(docsSeq)))

\* executeBatches: docs.slice(i, i + BATCH_SIZE)
batchDocs(docsSeq, from) ==
  SubSeq(docsSeq, from + 1, Min(from + BATCH_SIZE, Len(docsSeq)))

\* update() returns the object { count }, delete() the bare number.
returned(kind, n) ==
  [shape |-> IF kind = "update" THEN "object" ELSE "number", count |-> n]

OpsOf(batch) == {batch.ops[j] : j \in 1..Len(batch.ops)}

InitBatch ==
  /\ relNames = {}
  /\ timestamps \in BOOLEAN
  /\ docs = [d \in DocIds |-> NoDoc]
  /\ IdleEnt
  /\ IdlePl
  /\ IdleMm
  /\ IdleBd
  /\ IdleDb
  /\ matching \in DocCounts
  /\ qbOp = "none"
  /\ parallel = FALSE
  /\ qbPc = "idle"
  /\ snapshot = <<>>
  /\ qbPayload = EmptyObj
  /\ i = 0
  /\ batches = <<>>
  /\ singleWrites = {}
  /\ applied = {}
  /\ qbOutcome = "none"
  /\ qbError = "none"
  /\ qbResult = [shape |-> "none", count |-> 0]
  /\ qbCalls = {}

\* Faulty variant: every matched document hydrated and written through the
\* instance methods save() / delete(), which run the hooks around the write
docCalls_throughModel(kind, par) ==
  IF kind = "update"
    THEN {"beforeSave", "beforeUpdate", "updateDoc", "afterUpdate", "afterSave"}
    ELSE {"beforeDelete", "deleteDoc", "afterDelete"}

\* The functions update() / delete() invoke for the matched documents:
\* updateDoc / deleteDoc on each reference (parallel), else writeBatch,
\* batch.update / batch.delete on each reference and batch.commit.
docCalls(kind, par) ==
  IF par
    THEN {IF kind = "update" THEN "updateDoc" ELSE "deleteDoc"}
    ELSE {"writeBatch", IF kind = "update" THEN "batch.update" ELSE "batch.delete",
          "batch.commit"}

\* QueryBuilder.update(data, options) up to the await of getDocs.
CallUpdate(data, par) ==
  /\ qbPc = "idle"
  /\ qbOp' = "update"
  /\ parallel' = par
  /\ qbPayload' = data
  /\ qbPc' = "getDocs"
  /\ UNCHANGED <<matching, snapshot, i, batches, singleWrites, applied, qbOutcome, qbError,
                 qbResult>>
  /\ qbCalls' = {"query", "getDocs"}
  /\ qbOnly

\* QueryBuilder.delete(options) up to the await of getDocs.
CallBatchDelete(par) ==
  /\ qbPc = "idle"
  /\ qbOp' = "delete"
  /\ parallel' = par
  /\ qbPc' = "getDocs"
  /\ UNCHANGED <<matching, snapshot, qbPayload, i, batches, singleWrites, applied,
                 qbOutcome, qbError, qbResult>>
  /\ qbCalls' = {"query", "getDocs"}
  /\ qbOnly

\* Faulty variant: no test of snapshot.empty, and a loop that opens its batch before
\* it looks at the index (a do-while)
GetDocsResolves_eagerBatch ==
  /\ qbPc = "getDocs"
  /\ snapshot' = [d \in 1..matching |-> d]
  /\ qbPayload' = IF qbOp = "update" THEN buildUpdateData(qbPayload, timestamps, now)
                   ELSE qbPayload
  /\ IF parallel
       THEN /\ singleWrites' = 1..matching
            /\ qbPc' = "parallel"
            /\ UNCHANGED batches
       ELSE /\ batches' = <<[ops |-> batchDocs([d \in 1..matching |-> d], 0),
                             state |-> "pending"]>>
            /\ qbPc' = "commit"
            /\ UNCHANGED singleWrites
  /\ qbCalls' = qbCalls \cup docCalls(qbOp, parallel)
  /\ UNCHANGED <<matching, qbOp, parallel, i, applied, qbOutcome, qbError, qbResult>>
  /\ qbOnly

\* getDocs resolves: the snapshot.empty return, else the payload and either
\* every updateDoc / deleteDoc issued at once (parallel) or executeBatches entered.
GetDocsResolves ==
  /\ qbPc = "getDocs"
  /\ snapshot' = [d \in 1..matching |-> d]
  /\ IF matching = 0
       THEN /\ qbOutcome' = "resolved"
            /\ qbResult' = returned(qbOp, 0)
            /\ qbPc' = "done"
            /\ UNCHANGED <<qbPayload, singleWrites, qbCalls>>
       ELSE /\ qbPayload' = IF qbOp = "update"
                               THEN buildUpdateData(qbPayload, timestamps, now)
                               ELSE qbPayload
            /\ singleWrites' = IF parallel THEN 1..matching ELSE singleWrites
            /\ qbPc' = IF parallel THEN "parallel" ELSE "loop"
            /\ qbCalls' = IF parallel THEN qbCalls \cup docCalls(qbOp, TRUE) ELSE qbCalls
            /\ UNCHANGED <<qbOutcome, qbResult>>
  /\ UNCHANGED <<matching, qbOp, parallel, i, batches, applied, qbError>>
  /\ qbOnly

\* getDocs rejects.
GetDocsRejects ==
  /\ qbPc = "getDocs"
  /\ qbOutcome' = "rejected"
  /\ qbError' = "getDocs"
  /\ qbPc' = "done"
  /\ UNCHANGED <<matching, qbOp, parallel, snapshot, qbPayload, i, batches, singleWrites,
                 applied, qbResult>>
  /\ UNCHANGED qbCalls
  /\ qbOnly

\* Promise.all over the single writes: all of them succeed, or the writes in
\* failed are refused, the others take effect and the call rejects.
ParallelSettles(failed) ==
  /\ qbPc = "parallel"
  /\ failed \subseteq singleWrites
  /\ applied' = singleWrites \ failed
  /\ IF failed = {}
       THEN /\ qbOutcome' = "resolved"
            /\ qbResult' = returned(qbOp, Len(snapshot))
            /\ UNCHANGED qbError
       ELSE /\ qbOutcome' = "rejected"
            /\ qbError' = "write"
            /\ UNCHANGED qbResult
  /\ qbPc' = "done"
  /\ UNCHANGED <<matching, qbOp, parallel, snapshot, qbPayload, i, batches, singleWrites>>
  /\ UNCHANGED qbCalls
  /\ qbOnly

\* executeBatches, one turn of the loop up to its await: writeBatch(), the
\* slice, operation(batch, doc) for every document of it, batch.commit().
OpenBatch ==
  /\ qbPc = "loop"
  /\ i < Len(snapshot)
  /\ batches' = Append(batches, [ops |-> batchDocs(snapshot, i), state |-> "pending"])
  /\ qbPc' = "commit"
  /\ UNCHANGED <<matching, qbOp, parallel, snapshot, qbPayload, i, singleWrites, applied,
                 qbOutcome, qbError, qbResult>>
  /\ qbCalls' = qbCalls \cup docCalls(qbOp, FALSE)
  /\ qbOnly

\* batch.commit() resolves: the batch's writes take effect together, i += BATCH_SIZE.
CommitResolves ==
  /\ qbPc = "commit"
  /\ batches' = [batches EXCEPT ![Len(batches)].state = "committed"]
  /\ applied' = applied \cup OpsOf(batches[Len(batches)])
  /\ i' = i + BATCH_SIZE
  /\ qbPc' = "loop"
  /\ UNCHANGED <<matching, qbOp, parallel, snapshot, qbPayload, singleWrites, qbOutcome,
                 qbError, qbResult>>
  /\ UNCHANGED qbCalls
  /\ qbOnly

\* Faulty variant: the commit's rejection caught inside the loop, which carries on
CommitRejects_continues ==
  /\ qbPc = "commit"
  /\ batches' = [batches EXCEPT ![Len(batches)].state = "failed"]
  /\ i' = i + BATCH_SIZE
  /\ qbPc' = "loop"
  /\ UNCHANGED <<matching, qbOp, parallel, snapshot, qbPayload, singleWrites, applied,
                 qbOutcome, qbError, qbResult>>
  /\ UNCHANGED qbCalls
  /\ qbOnly

\* batch.commit() rejects: none of the batch's writes takes effect, the
\* error leaves executeBatches and the call; nothing is rolled back.
CommitRejects ==
  /\ qbPc = "commit"
  /\ batches' = [batches EXCEPT ![Len(batches)].state = "failed"]
  /\ qbOutcome' = "rejected"
  /\ qbError' = "commit"
  /\ qbPc' = "done"
  /\ UNCHANGED <<matching, qbOp, parallel, snapshot, qbPayload, i, singleWrites, applied,
                 qbResult>>
  /\ UNCHANGED qbCalls
  /\ qbOnly

\* The loop ends and the call returns the number of matched documents.
BatchesDone ==
  /\ qbPc = "loop"
  /\ i >= Len(snapshot)
  /\ qbOutcome' = "resolved"
  /\ qbResult' = returned(qbOp, Len(snapshot))
  /\ qbPc' = "done"
  /\ UNCHANGED <<matching, qbOp, parallel, snapshot, qbPayload, i, batches, singleWrites,
                 applied, qbError>>
  /\ UNCHANGED qbCalls
  /\ qbOnly

NextBatch ==
  \/ \E data \in PartialData, par \in BOOLEAN : CallUpdate(data, par)
  \/ \E par \in BOOLEAN : CallBatchDelete(par)
  \/ GetDocsResolves
  \/ GetDocsRejects
  \/ \E failed \in {{}, {1}, {matching}} : ParallelSettles(failed)
  \/ OpenBatch
  \/ CommitResolves
  \/ CommitRejects
  \/ BatchesDone

SpecBatch == InitBatch /\ [][NextBatch]_vars

----------------------------------------------------------------------------
(* Claims about the query builder's batches *)

Ceil(a, b) == (a + b - 1) \div b

RECURSIVE SumOps(_)
SumOps(bs) == IF bs = <<>> THEN 0 ELSE Len(Head(bs).ops) + SumOps(Tail(bs))

BatchesWith(d) == {b \in 1..Len(batches) : d \in OpsOf(batches[b])}

\* C4: a non-parallel update() or delete() that matched M >= 1 documents
\* and resolved has opened exactly ceil(M / 500) batches, none of more than
\* 500 operations, whose operation counts sum to M, and every matched
\* document has its operation in exactly one of them.
C4_BatchChunks ==
  (qbOutcome = "resolved" /\ ~parallel /\ matching >= 1) =>
    /\ Len(batches) = Ceil(matching, 500)
    /\ \A b \in 1..Len(batches) : Len(batches[b].ops) <= 500
    /\ SumOps(batches) = matching
    /\ \A d \in 1..matching : Cardinality(BatchesWith(d)) = 1

\* A resolved call over more than two full chunks.
C4_Witness ==
  /\ qbOutcome = "resolved"
  /\ ~parallel
  /\ matching = 2 * BATCH_SIZE + 1
  /\ Len(batches) = 3
  /\ applied = 1..matching

\* C5: every batch before the last one opened is committed, so a batch is
\* opened only after the commit of the one before has resolved; and when the
\* commit of chunk k has failed, the call has rejected with the store's
\* error, chunk k is the last batch ever opened, and exactly the writes of
\* chunks 1..k-1 are in effect.
C5_SequentialNoRollback ==
  /\ \A b \in 1..(Len(batches) - 1) : batches[b].state = "committed"
  /\ \A k \in 1..Len(batches) :
       batches[k].state = "failed" =>
         /\ k = Len(batches)
         /\ qbPc = "done"
         /\ qbOutcome = "rejected"
         /\ qbError = "commit"
         /\ applied = 1..((k - 1) * BATCH_SIZE)

\* The commit of the second of three chunks has failed.
C5_Witness ==
  /\ matching = 2 * BATCH_SIZE + 1
  /\ Len(batches) = 2
  /\ batches[1].state = "committed"
  /\ batches[2].state = "failed"
  /\ qbOutcome = "rejected"

\* C6: once getDocs has resolved with no document, update() has
\* returned {count: 0} and delete() 0, no batch has been opened and no
\* single-document write issued, with and without options.parallel.
C6_EmptyMatch ==
  (matching = 0 /\ qbPc \notin {"idle", "getDocs"} /\ qbError # "getDocs") =>
    /\ qbOutcome = "resolved"
    /\ qbResult = [shape |-> IF qbOp = "update" THEN "object" ELSE "number", count |-> 0]
    /\ batches = <<>>
    /\ singleWrites = {}
    /\ applied = {}

\* An empty match in parallel mode.
C6_Witness ==
  /\ matching = 0
  /\ parallel
  /\ qbOp = "update"
  /\ qbOutcome = "resolved"

----------------------------------------------------------------------------
(* Relations: the store's queries, the lazy get() of BelongsTo, HasMany    *)
(* and ManyToMany, and the PreloadManager.  Keys and field values are      *)
(* strings; Undefined stands for a field the document or object lacks.     *)

InLimit == 10

Undefined == "undefined"

NameSeq == <<"u1", "u2", "u3", "u4", "u5", "u6", "u7", "u8", "u9", "u10", "u11", "u12",
             "u13", "u14">>
RelSeq == <<"r1", "r2", "r3", "r4", "r5", "r6", "r7", "r8", "r9", "r10", "r11", "r12",
            "r13", "r14">>
SlugSeq == <<"s1", "s2", "s3", "s4", "s5", "s6", "s7", "s8", "s9", "s10", "s11", "s12",
             "s13", "s14">>

\* Names every plain object inherits from Object.prototype: obj[name] is a
\* function although obj has no such key of its own.
ObjectPrototypeKeys == {"constructor", "toString", "valueOf", "hasOwnProperty"}

\* What a relation resolves to.
NotSet == [kind |-> "none", items |-> <<>>]
Null == [kind |-> "null", items |-> <<>>]
Entity(e) == [kind |-> "entity", items |-> <<e>>]
List(es) == [kind |-> "list", items |-> es]
InheritedFunction == [kind |-> "function", items |-> <<>>]

\* Model.hydrate(doc.id, doc.data()) of a related document: instance.id is
\* the document id unless Object.assign overwrites it with a data field id.
hydrate(d) ==
  [id |-> IF d.id # Undefined THEN d.id ELSE d.docId,
   slug |-> d.slug, userId |-> d.userId, pivot |-> Undefined]

\* utils chunk(array, size)
RECURSIVE chunk(_, _)
chunk(array, size) ==
  IF array = <<>> THEN <<>>
  ELSE <<SubSeq(array, 1, Min(size, Len(array)))>>
         \o chunk(SubSeq(array, size + 1, Len(array)), size)

\* [...new Set(array)]: the distinct values in the order of first occurrence
RECURSIVE uniq(_)
uniq(array) ==
  IF array = <<>> THEN <<>>
  ELSE LET front == uniq(SubSeq(array, 1, Len(array) - 1))
           last == array[Len(array)]
       IN IF Contains(front, last) THEN front ELSE Append(front, last)

\* array.map(item => item[key])
pluck(array, key) == [j \in 1..Len(array) |-> array[j][key]]

\* snapshot.docs.map(doc => ModelConstructor.hydrate(doc.id, doc.data()))
hydrateAll(ds) == [j \in 1..Len(ds) |-> hydrate(ds[j])]

\* The store's filters work on the fields of the document's data: a
\* document without the field never matches, and the document id is not a field.
\* getDocs(query(ref, where(field, 'in', values)))
StoreIn(store, field, values) ==
  SelectSeq(store, LAMBDA d : d[field] # Undefined /\ d[field] \in ElemsOf(values))

\* getDocs(query(ref, where(field, '==', value)))
StoreEq(store, field, value) ==
  SelectSeq(store, LAMBDA d : d[field] # Undefined /\ d[field] = value)

\* QueryBuilder.get() of RelatedModelClass.query().whereIn(field, values)
whereIn(field, values) == hydrateAll(StoreIn(relatedStore, field, values))

\* Model.find(key): getDoc by document id, null or the hydrated entity
find(key) ==
  LET hit == SelectSeq(relatedStore, LAMBDA d : d.docId = key)
  IN IF hit = <<>> THEN Null ELSE Entity(hydrate(hit[1]))

\* snapshot.docs.map(doc => ({ id: doc.id, ...doc.data() })) of a pivot row
pivotRow(d) == [id |-> d.docId, userId |-> d.userId, roleId |-> d.roleId,
                assignedBy |-> d.assignedBy]

\* new Map(), set(item[key], item) for every item, then has(value) and
\* get(value): the last item set under the value
MapHas(array, key, value) == \E j \in 1..Len(array) : array[j][key] = value

MapGet(array, key, value) ==
  LET hits == {j \in 1..Len(array) : array[j][key] = value}
  IN array[CHOOSE j \in hits : \A h \in hits : h <= j]

\* utils groupBy(array, key) builds a plain object: it throws a TypeError
\* when an item's key names an inherited function, on which push is undefined
groupByThrows(array, key) ==
  \E j \in 1..Len(array) : array[j][key] \in ObjectPrototypeKeys

\* groupBy(array, key)[value]: the group, an inherited function, or Undefined
groupLookup(array, key, value) ==
  LET group == SelectSeq(array, LAMBDA e : e[key] # Undefined /\ e[key] = value)
  IN IF group # <<>> THEN List(group)
     ELSE IF value \in ObjectPrototypeKeys THEN InheritedFunction
     ELSE NotSet

\* BelongsTo.get(): null for a falsy foreign key, else RelatedModelClass.find
BelongsTo_get(parent) ==
  IF parent.authorId \in {Undefined, ""} THEN Null ELSE find(parent.authorId)

\* HasMany.get() -> createForeignKeyQuery().get()
HasMany_get(parent) ==
  List(hydrateAll(StoreEq(relatedStore, "userId", parent.id)))

pivotRows(ds) == [j \in 1..Len(ds) |-> pivotRow(ds[j])]

\* ManyToMany.queryPivot()
queryPivot(parent) == pivotRows(StoreEq(pivotStore, "userId", parent.id))

\* A query as the store sees it: the collection or path, and its predicate.
inQuery(on, field, values) == [on |-> on, field |-> field, op |-> "in", values |-> values]
eqQuery(on, field, value) == [on |-> on, field |-> field, op |-> "==", values |-> <<value>>]
pathQuery(path) == [on |-> path, field |-> "none", op |-> "none", values |-> <<>>]

\* HasMany.createSubcollectionQuery: the path of the parent's subcollection
subcollectionPath(parent) == <<"users", parent.id, "posts">>

\* HasMany.get() -> createSubcollectionQuery().get().  A related document's
\* userId names the parent under whose path it is stored.
HasManySubcollection_get(parent) ==
  List(hydrateAll(StoreEq(relatedStore, "userId", parent.id)))

\* BelongsToMany.getForeignKeyValues
getForeignKeyValues(value) == SelectSeq(value, LAMBDA v : v # Undefined /\ v # "")

\* BelongsToMany.get(): one whereIn over all the ids, which the store
\* refuses when they are more than an "in" takes.
Refused == [kind |-> "refused", items |-> <<>>]
BelongsToMany_get(value) ==
  LET ids == getForeignKeyValues(value)
  IN IF ids = <<>> THEN List(<<>>)
     ELSE IF Len(ids) > InLimit THEN Refused
     ELSE List(whereIn("id", ids))

\* The queries ManyToMany.get() issues: queryPivot, then a whereIn per chunk
ManyToMany_queries(parent) ==
  LET pivots == queryPivot(parent)
      cs == chunk(pluck(pivots, "roleId"), InLimit)
  IN <<eqQuery("pivot", "userId", parent.id)>>
       \o [j \in 1..Len(cs) |-> inQuery("related", "id", cs[j])]

RECURSIVE whereInChunks(_, _)
whereInChunks(field, cs) ==
  IF cs = <<>> THEN <<>>
  ELSE whereIn(field, Head(cs)) \o whereInChunks(field, Tail(cs))

\* ManyToMany.attachPivotData: $pivot from the pivot row found under model.id
attachPivotData(related, pivots) ==
  [j \in 1..Len(related) |->
     IF MapHas(pivots, "roleId", related[j].id)
       THEN [related[j] EXCEPT !.pivot = MapGet(pivots, "roleId", related[j].id).assignedBy]
       ELSE related[j]]

\* ManyToMany.get()
ManyToMany_get(parent) ==
  LET pivots == queryPivot(parent)
      relatedIds == pluck(pivots, "roleId")
      fetched == whereInChunks("id", chunk(relatedIds, InLimit))
  IN IF pivots = <<>> THEN List(<<>>)
     ELSE IF Len(pivotFields) > 0 THEN List(attachPivotData(fetched, pivots))
     ELSE List(fetched)

----------------------------------------------------------------------------
(* The owning entities and the store the relations are resolved against *)

ModelCounts == {0, 1, 2, MaxModels}

\* The array foreign key of a BelongsToMany parent: not an array or empty,
\* a few ids with an empty one between them, more ids than one "in" takes.
ArrayKeys == {<<>>, <<RelSeq[1], "", RelSeq[3]>>, SubSeq(RelSeq, 1, MaxModels)}
Links == {"none", "shared", "each"}

\* The owning entities: n of them, the first under the id first.  Their
\* foreign key (BelongsTo) is missing, the key of the first related
\* document for all, or the key of a related document each.
Owners(n, first, link, key) ==
  [k \in 1..n |->
     [id |-> IF k = 1 THEN first ELSE NameSeq[k],
      authorId |-> CASE link = "none" -> Undefined
                     [] link = "shared" -> IF key = "id" THEN RelSeq[1] ELSE SlugSeq[1]
                     [] OTHER -> IF key = "id" THEN RelSeq[k] ELSE SlugSeq[k]]]

\* The related collection: n documents (the second one missing when there
\* are three or more) and one that no owning entity refers to.  Every
\* document has a slug; it carries its id as a data field or not; its
\* foreign key (HasMany) is the first owning entity's id or one each.
Related(n, first, link, withId) ==
  LET owner(k) == IF k = 1 THEN first ELSE NameSeq[k]
      d(k) == [docId |-> RelSeq[k],
               id |-> IF withId THEN RelSeq[k] ELSE Undefined,
               slug |-> SlugSeq[k],
               userId |-> CASE k = n + 1 -> "nobody"
                            [] link = "none" -> Undefined
                            [] link = "shared" -> first
                            [] OTHER -> owner(k)]
  IN SelectSeq([k \in 1..(n + 1) |-> d(k)], LAMBDA e : n < 3 \/ e.docId # RelSeq[2])

\* The pivot collection: no row, a row from every owning entity to the
\* first related document, or a row from each to its own and rows from the
\* first to all of them.
Pivots(n, first, link) ==
  LET owner(k) == IF k = 1 THEN first ELSE NameSeq[k]
      row(k, r) == [docId |-> NameSeq[k], userId |-> owner(k), roleId |-> RelSeq[r],
                    assignedBy |-> SlugSeq[k]]
  IN CASE link = "none" -> <<>>
       [] link = "shared" -> [k \in 1..n |-> row(k, 1)]
       [] OTHER -> [k \in 1..n |-> row(k, k)] \o [r \in 1..n |-> row(1, r)]

InitPreload ==
  /\ relNames = {}
  /\ timestamps = TRUE
  /\ docs = [d \in DocIds |-> NoDoc]
  /\ IdleEnt
  /\ IdleQb
  /\ IdleMm
  /\ IdleBd
  /\ IdleDb
  /\ relation \in {"BelongsTo", "HasMany", "HasManySubcollection", "ManyToMany",
                   "BelongsToMany", "NotDefined"}
  /\ ownerKey \in IF relation = "BelongsTo" THEN {"id", "slug"} ELSE {"id"}
  /\ pivotFields \in IF relation = "ManyToMany" THEN {<<>>, <<"assignedBy">>} ELSE {<<>>}
  /\ \E n \in ModelCounts, first \in {"u1", "constructor"}, link \in Links,
        withId \in BOOLEAN :
       /\ models = Owners(n, first, link, ownerKey)
       /\ relatedStore = Related(n, first, link, withId)
       /\ pivotStore = IF relation = "ManyToMany" THEN Pivots(n, first, link) ELSE <<>>
       /\ loaded = [k \in 1..n |-> NotSet]
       /\ lazy = [k \in 1..n |-> NotSet]
  /\ plPc = "idle"
  /\ chunks = <<>>
  /\ allPivots = <<>>
  /\ allRelated = <<>>
  /\ lazyNext = 1
  /\ plOutcome = "none"
  /\ plError = "none"
  /\ plQueries = <<>>
  /\ lazyQueries = <<>>
  /\ arrayKey \in IF relation = "BelongsToMany" THEN ArrayKeys ELSE {<<>>}

----------------------------------------------------------------------------
(* PreloadManager.execute -> loadRelation -> loadBelongsTo /                *)
(* loadHasManyForeignKey / loadManyToMany, and the lazy get() calls        *)

\* loadBelongsTo, "attach to models": relatedById.get(fkValue) || null
attachBelongsTo(related) ==
  [k \in 1..Len(models) |->
     IF MapHas(related, ownerKey, models[k].authorId)
       THEN Entity(MapGet(related, ownerKey, models[k].authorId))
       ELSE Null]

\* loadHasManyForeignKey, "attach to models": relatedByFk[localKeyValue] || []
attachHasMany(related) ==
  [k \in 1..Len(models) |->
     LET group == groupLookup(related, "userId", models[k].id)
     IN IF group = NotSet THEN List(<<>>) ELSE group]

\* loadManyToMany, step 6 for one owning entity: its pivots mapped through
\* relatedById and filtered by Boolean; no $pivot is set on them
attachManyToMany(pivots, related, parent) ==
  LET modelPivots == groupLookup(pivots, "userId", parent.id).items
      found == SelectSeq(modelPivots, LAMBDA q : MapHas(related, "id", q.roleId))
  IN List([j \in 1..Len(found) |-> MapGet(related, "id", found[j].roleId)])

\* The owning entities whose pivotsByLocalKey[localKeyValue] is an
\* inherited function: modelPivots.map is not a function.
mapThrowsAt(pivots) ==
  {k \in 1..Len(models) : groupLookup(pivots, "userId", models[k].id) = InheritedFunction}

\* The end of load*: the related entities are indexed or grouped and the
\* owning entities get their values, in order, unless groupBy or map throws.
finish(pivots, related) ==
  CASE relation = "BelongsTo" ->
         [loaded |-> attachBelongsTo(related), outcome |-> "resolved", error |-> "none"]
    [] relation = "HasMany" ->
         IF groupByThrows(related, "userId")
           THEN [loaded |-> loaded, outcome |-> "rejected", error |-> "TypeError"]
           ELSE [loaded |-> attachHasMany(related), outcome |-> "resolved", error |-> "none"]
    [] OTHER ->
         IF groupByThrows(pivots, "userId")
           THEN [loaded |-> loaded, outcome |-> "rejected", error |-> "TypeError"]
           ELSE LET bad == mapThrowsAt(pivots)
                    stop == IF bad = {} THEN Len(models) + 1
                            ELSE CHOOSE k \in bad : \A h \in bad : k <= h
                IN [loaded |-> [k \in 1..Len(models) |->
                                  IF k < stop
                                    THEN attachManyToMany(pivots, related, models[k])
                                    ELSE loaded[k]],
                    outcome |-> IF bad = {} THEN "resolved" ELSE "rejected",
                    error |-> IF bad = {} THEN "none" ELSE "TypeError"]

\* Faulty variant: the foreign keys collected without new Set, one per entity
foreignKeyValues_perEntity(ms) ==
  SelectSeq(pluck(ms, "authorId"), LAMBDA v : v # Undefined /\ v # "")

\* loadBelongsTo: [...new Set(models.map(m => m[foreignKey]).filter(v => v != null && v !== ''))]
foreignKeyValues(ms) ==
  uniq(SelectSeq(pluck(ms, "authorId"), LAMBDA v : v # Undefined /\ v # ""))

\* get() with preload(name), from the hydrated owning entities to the
\* first query of the load.  execute() returns at once when there is no
\* owning entity; loadRelation throws when the type has no member of the
\* registered name, or when the relation's class is none of its cases; else
\* the keys are collected and chunked, or every owning entity gets null / []
\* when there is no key.
\* loadHasManySubcollection takes ModelClass[config.relation].call(ModelClass,
\* model) for the relation of a model.  The static member returns the
\* factory (parent) => new HasMany(...) whatever it is called with, so the
\* value is that function: it has no query member, relation.query() throws
\* a TypeError in the callback of the first model before any query is built,
\* and Promise.all rejects with it.
CallPreload ==
  /\ plPc = "idle"
  /\ LET keys == IF relation = "BelongsTo"
                   THEN foreignKeyValues(models)
                   ELSE SelectSeq(pluck(models, "id"), LAMBDA v : v # Undefined)
     IN IF models = <<>>
          THEN /\ plOutcome' = "resolved"
               /\ plPc' = "done"
               /\ UNCHANGED <<loaded, chunks, plError>>
          ELSE IF relation = "NotDefined"
          THEN /\ plOutcome' = "rejected"
               /\ plError' = "UnknownRelation"
               /\ plPc' = "done"
               /\ UNCHANGED <<loaded, chunks>>
          ELSE IF relation = "BelongsToMany"
          THEN /\ plOutcome' = "rejected"
               /\ plError' = "UnknownRelationType"
               /\ plPc' = "done"
               /\ UNCHANGED <<loaded, chunks>>
          ELSE IF relation = "HasManySubcollection"
          THEN /\ plOutcome' = "rejected"
               /\ plError' = "TypeError"
               /\ plPc' = "done"
               /\ UNCHANGED <<loaded, chunks>>
          ELSE IF keys = <<>>
          THEN /\ loaded' = [k \in 1..Len(models) |->
                               IF relation = "BelongsTo" THEN Null ELSE List(<<>>)]
               /\ plOutcome' = "resolved"
               /\ plPc' = "done"
               /\ UNCHANGED <<chunks, plError>>
          ELSE /\ chunks' = chunk(keys, InLimit)
               /\ plPc' = IF relation = "ManyToMany" THEN "pivots" ELSE "related"
               /\ UNCHANGED <<loaded, plOutcome, plError>>
  /\ UNCHANGED <<relation, ownerKey, pivotFields, models, relatedStore, pivotStore,
                 allPivots, allRelated, lazy, lazyNext>>
  /\ UNCHANGED <<plQueries, lazyQueries, arrayKey>>
  /\ plOnly

\* loadManyToMany, step 1: the pivot query of a chunk resolves and another
\* chunk follows.
PivotChunk ==
  /\ plPc = "pivots"
  /\ Len(chunks) > 1
  /\ allPivots' = allPivots \o pivotRows(StoreIn(pivotStore, "userId", Head(chunks)))
  /\ chunks' = Tail(chunks)
  /\ UNCHANGED <<relation, ownerKey, pivotFields, models, relatedStore, pivotStore, plPc,
                 allRelated, loaded, lazy, lazyNext, plOutcome, plError>>
  /\ plQueries' = Append(plQueries, inQuery("pivot", "userId", Head(chunks)))
  /\ UNCHANGED <<lazyQueries, arrayKey>>
  /\ plOnly

\* loadManyToMany, steps 1 to 3: the pivot query of the last chunk resolves;
\* without any pivot every owning entity gets [], else the distinct related
\* ids are chunked.
PivotLastChunk ==
  /\ plPc = "pivots"
  /\ Len(chunks) = 1
  /\ LET pivots == allPivots \o pivotRows(StoreIn(pivotStore, "userId", Head(chunks)))
     IN /\ allPivots' = pivots
        /\ IF pivots = <<>>
             THEN /\ loaded' = [k \in 1..Len(models) |-> List(<<>>)]
                  /\ plOutcome' = "resolved"
                  /\ plPc' = "done"
                  /\ chunks' = <<>>
             ELSE /\ chunks' = chunk(uniq(pluck(pivots, "roleId")), InLimit)
                  /\ plPc' = "related"
                  /\ UNCHANGED <<loaded, plOutcome>>
  /\ UNCHANGED <<relation, ownerKey, pivotFields, models, relatedStore, pivotStore,
                 allRelated, lazy, lazyNext, plError>>
  /\ plQueries' = Append(plQueries, inQuery("pivot", "userId", Head(chunks)))
  /\ UNCHANGED <<lazyQueries, arrayKey>>
  /\ plOnly

\* The field the related entities are fetched by.
relatedField ==
  CASE relation = "BelongsTo" -> ownerKey
    [] relation = "HasMany" -> "userId"
    [] OTHER -> "id"

\* The whereIn query of a chunk resolves and another chunk follows.
RelatedChunk ==
  /\ plPc = "related"
  /\ Len(chunks) > 1
  /\ allRelated' = allRelated \o whereIn(relatedField, Head(chunks))
  /\ chunks' = Tail(chunks)
  /\ UNCHANGED <<relation, ownerKey, pivotFields, models, relatedStore, pivotStore, plPc,
                 allPivots, loaded, lazy, lazyNext, plOutcome, plError>>
  /\ plQueries' = Append(plQueries, inQuery("related", relatedField, Head(chunks)))
  /\ UNCHANGED <<lazyQueries, arrayKey>>
  /\ plOnly

\* The whereIn query of the last chunk resolves and the load finishes.
RelatedLastChunk ==
  /\ plPc = "related"
  /\ Len(chunks) = 1
  /\ LET related == allRelated \o whereIn(relatedField, Head(chunks))
         end == finish(allPivots, related)
     IN /\ allRelated' = related
        /\ loaded' = end.loaded
        /\ plOutcome' = end.outcome
        /\ plError' = end.error
  /\ chunks' = <<>>
  /\ plPc' = "done"
  /\ UNCHANGED <<relation, ownerKey, pivotFields, models, relatedStore, pivotStore,
                 allPivots, lazy, lazyNext>>
  /\ plQueries' = Append(plQueries, inQuery("related", relatedField, Head(chunks)))
  /\ UNCHANGED <<lazyQueries, arrayKey>>
  /\ plOnly

\* A query of the load rejects: the error leaves get().
QueryRejects ==
  /\ plPc \in {"pivots", "related"}
  /\ plOutcome' = "rejected"
  /\ plError' = "storeError"
  /\ plPc' = "done"
  /\ UNCHANGED <<relation, ownerKey, pivotFields, models, relatedStore, pivotStore, chunks,
                 allPivots, allRelated, loaded, lazy, lazyNext>>
  /\ plQueries' = Append(plQueries,
                          IF plPc = "pivots" THEN inQuery("pivot", "userId", Head(chunks))
                          ELSE inQuery("related", relatedField, Head(chunks)))
  /\ UNCHANGED <<lazyQueries, arrayKey>>
  /\ plOnly

\* relation.get() on the next owning entity, one action per relation type.
LazyBelongsTo ==
  /\ relation = "BelongsTo"
  /\ lazyNext <= Len(models)
  /\ lazy' = [lazy EXCEPT ![lazyNext] = BelongsTo_get(models[lazyNext])]
  /\ lazyNext' = lazyNext + 1
  /\ UNCHANGED <<relation, ownerKey, pivotFields, models, relatedStore, pivotStore, plPc,
                 chunks, allPivots, allRelated, loaded, plOutcome, plError>>
  /\ lazyQueries' = <<>>
  /\ UNCHANGED <<plQueries, arrayKey>>
  /\ plOnly

LazyHasMany ==
  /\ relation = "HasMany"
  /\ lazyNext <= Len(models)
  /\ lazy' = [lazy EXCEPT ![lazyNext] = HasMany_get(models[lazyNext])]
  /\ lazyNext' = lazyNext + 1
  /\ UNCHANGED <<relation, ownerKey, pivotFields, models, relatedStore, pivotStore, plPc,
                 chunks, allPivots, allRelated, loaded, plOutcome, plError>>
  /\ lazyQueries' = <<eqQuery("related", "userId", models[lazyNext].id)>>
  /\ UNCHANGED <<plQueries, arrayKey>>
  /\ plOnly

LazyManyToMany ==
  /\ relation = "ManyToMany"
  /\ lazyNext <= Len(models)
  /\ lazy' = [lazy EXCEPT ![lazyNext] = ManyToMany_get(models[lazyNext])]
  /\ lazyNext' = lazyNext + 1
  /\ UNCHANGED <<relation, ownerKey, pivotFields, models, relatedStore, pivotStore, plPc,
                 chunks, allPivots, allRelated, loaded, plOutcome, plError>>
  /\ lazyQueries' = ManyToMany_queries(models[lazyNext])
  /\ UNCHANGED <<plQueries, arrayKey>>
  /\ plOnly

\* relation.get() of a HasMany relation stored as a subcollection
LazyHasManySubcollection ==
  /\ relation = "HasManySubcollection"
  /\ lazyNext <= Len(models)
  /\ lazy' = [lazy EXCEPT ![lazyNext] = HasManySubcollection_get(models[lazyNext])]
  /\ lazyNext' = lazyNext + 1
  /\ lazyQueries' = <<pathQuery(subcollectionPath(models[lazyNext]))>>
  /\ UNCHANGED <<relation, ownerKey, pivotFields, models, relatedStore, pivotStore, plPc,
                 chunks, allPivots, allRelated, loaded, plOutcome, plError, plQueries,
                 arrayKey>>
  /\ plOnly

\* relation.get() of a BelongsToMany relation (query() builds the same whereIn)
LazyBelongsToMany ==
  /\ relation = "BelongsToMany"
  /\ lazyNext <= Len(models)
  /\ lazy' = [lazy EXCEPT ![lazyNext] = BelongsToMany_get(arrayKey)]
  /\ lazyNext' = lazyNext + 1
  /\ lazyQueries' = IF getForeignKeyValues(arrayKey) = <<>> THEN <<>>
                     ELSE <<inQuery("related", "id", getForeignKeyValues(arrayKey))>>
  /\ UNCHANGED <<relation, ownerKey, pivotFields, models, relatedStore, pivotStore, plPc,
                 chunks, allPivots, allRelated, loaded, plOutcome, plError, plQueries,
                 arrayKey>>
  /\ plOnly

NextPreload ==
  \/ CallPreload
  \/ PivotChunk
  \/ PivotLastChunk
  \/ RelatedChunk
  \/ RelatedLastChunk
  \/ QueryRejects
  \/ LazyBelongsTo
  \/ LazyHasMany
  \/ LazyManyToMany
  \/ LazyHasManySubcollection
  \/ LazyBelongsToMany

SpecPreload == InitPreload /\ [][NextPreload]_vars

----------------------------------------------------------------------------
(* Claims about preload against lazy loading *)

Both(k) == loaded[k] # NotSet /\ lazy[k] # NotSet

\* C7: for a BelongsTo relation, what the preload assigned to an owning
\* entity is what the lazy get() returns for it: the same related entity, or
\* null for both.
C7_BelongsToEquivalence ==
  relation = "BelongsTo" =>
    \A k \in 1..Len(models) : Both(k) => loaded[k] = lazy[k]

\* C8: for a HasMany relation by foreign key, what the preload assigned to
\* an owning entity is a list with the same related entities as the list the
\* lazy get() returns for it.
C8_HasManyEquivalence ==
  relation = "HasMany" =>
    \A k \in 1..Len(models) :
      Both(k) => /\ loaded[k].kind = lazy[k].kind
                 /\ ElemsOf(loaded[k].items) = ElemsOf(lazy[k].items)

\* C9: for a ManyToMany relation, the related entities the preload assigned
\* to an owning entity are, as a set, those the lazy get() returns for it,
\* their $pivot fields included.
C9_ManyToManyEquivalence ==
  relation = "ManyToMany" =>
    \A k \in 1..Len(models) :
      Both(k) => /\ loaded[k].kind = lazy[k].kind
                 /\ ElemsOf(loaded[k].items) = ElemsOf(lazy[k].items)

\* Where the two paths do agree.  Owning entities whose id is not the name
\* of a member of Object.prototype:
OrdinaryKeys == \A k \in 1..Len(models) : models[k].id \notin ObjectPrototypeKeys

\* BelongsTo without an ownerKey override, over related documents that carry
\* their id as a data field too.
BelongsToAgreesOnStoredIds ==
  (ownerKey = "id" /\ \A k \in 1..Len(relatedStore) : relatedStore[k].id # Undefined)
    => C7_BelongsToEquivalence

\* HasMany by foreign key, for ordinary ids, over any number of chunks.
HasManyAgreesOnOrdinaryKeys == OrdinaryKeys => C8_HasManyEquivalence

\* ManyToMany without pivotFields.
ManyToManyAgreesWithoutPivotFields == (pivotFields = <<>>) => C9_ManyToManyEquivalence

----------------------------------------------------------------------------
(* Further claims about the entity mapper *)

\* C11: the step in which a successful save() returns leaves the instance
\* clean: isDirty() is false and dirtyFields() is empty, whatever was
\* assigned before the call.
C11_SaveLeavesClean ==
  [][(op = "save" /\ pc = "after" /\ pc' = "done" /\ outcome' = "resolved")
       => (~isDirty(props', original') /\ dirtyFields(props', original') = {})]_vars

\* A save() of an instance that was dirty at the call has returned.
C11_Witness ==
  /\ op = "save"
  /\ pc = "done"
  /\ outcome = "resolved"
  /\ dirtyAtCall # {}
  /\ ~isDirty(props, original)

\* C15: with timestamps enabled, the instance a create() resolves with has
\* createdAt and updatedAt both set, to the same time; a save() of an
\* existing entity sends a payload with a new updatedAt and no createdAt,
\* gives the instance a new updatedAt, and leaves createdAt as it was on the
\* instance and in the stored document.
C15_Timestamps ==
  [][/\ (timestamps /\ op = "create" /\ pc = "after" /\ pc' = "done" /\ outcome' = "resolved")
          => /\ props'["createdAt"].k = "date"
             /\ props'["updatedAt"].k = "date"
             /\ props'["createdAt"].v = props'["updatedAt"].v
     /\ (timestamps /\ op = "save" /\ ~isNew /\ pc = "write" /\ pc' = "after")
          => /\ payload'["createdAt"] = Absent
             /\ payload'["updatedAt"].k = "ts"
             /\ props'["updatedAt"].k = "date"
             /\ props'["updatedAt"] # props["updatedAt"]
             /\ props'["createdAt"] = props["createdAt"]
             /\ \A d \in DocIds : docs'[d]["createdAt"] = docs[d]["createdAt"]]_vars

\* C16: the entity hydrated from a document serializes, for every field of
\* the document, to the value the document holds, a store timestamp of
\* createdAt or updatedAt read as the date of the same time.
C16_HydrateRoundTrip ==
  (hasInst /\ op = "none" /\ hydratedFrom # NoDoc /\ mutated = {}) =>
     \A x \in ObjKeys(hydratedFrom) :
        LET held == hydratedFrom[x]
            json == toJSON(props)[x]
        IN IF held.k = "ts" /\ x \in {"createdAt", "updatedAt"}
             THEN json.k = "date" /\ json.v = held.v
             ELSE json = held

\* C17: a createWithId that resolved has run beforeSave, beforeCreate, the
\* store's set, afterCreate and afterSave, in this order.
C17_CreateWithIdHooks ==
  (op = "createWithId" /\ outcome = "resolved" /\ thrown = <<>>) =>
     trace = <<"beforeSave", "beforeCreate", "setDoc", "afterCreate", "afterSave">>

\* C18: a refresh() without an identifier rejects with MissingIdentifier,
\* one whose document is gone with EntityNotFound; otherwise it resolves,
\* every data field of the instance then holds the stored value (a store
\* timestamp as the date of the same time) and the entity is not dirty.
C18_Refresh ==
  (op = "refresh" /\ pc = "done") =>
     IF Read(props, "id") = Undef
       THEN outcome = "rejected" /\ error = "MissingIdentifier"
       ELSE LET stored == docs[Read(props, "id").v]
            IN IF stored = NoDoc
                 THEN outcome = "rejected" /\ error = "EntityNotFound"
                 ELSE /\ outcome = "resolved"
                      /\ \A x \in DataKeys \cap ObjKeys(toJSON(props)) :
                           LET json == toJSON(props)[x]
                           IN IF stored[x].k = "ts"
                                THEN json.k = "date" /\ json.v = stored[x].v
                                ELSE json = stored[x]
                      /\ ~isDirty(props, original)

\* C19: a get() with a preload registered under a name that is no relation
\* of the type rejects with UnknownRelation, whether the primary query
\* returned entities or none.
C19_UnknownRelationRejects ==
  (relation = "NotDefined" /\ plPc = "done") =>
     (plOutcome = "rejected" /\ plError = "UnknownRelation")

\* The payload an update() has built: the caller's fields without id and
\* createdAt, with updatedAt stamped when the type has timestamps.
UpdatePayloadBuilt ==
  /\ qbPayload["id"] = Absent
  /\ qbPayload["createdAt"] = Absent
  /\ qbPayload["status"] = Prim(2)
  /\ timestamps => qbPayload["updatedAt"] = Ts(now)
  /\ ~timestamps => qbPayload["updatedAt"] = Absent

\* C20: the payload update() writes has no id and no createdAt, and has
\* updatedAt when the type has timestamps; it is built once and is the same
\* from the first write to the last, in batches or in parallel; and a
\* resolved update() returns the number of matched documents as its count.
C20_UpdatePayload ==
  [][/\ (qbOp' = "update" /\ qbPc' \in {"parallel", "loop", "commit"}) => UpdatePayloadBuilt'
     /\ (qbOp = "update" /\ qbPc \in {"parallel", "loop", "commit"}) => qbPayload' = qbPayload
     /\ (qbOp' = "update" /\ qbOutcome' = "resolved")
          => /\ qbResult' = [shape |-> "object", count |-> matching']
             /\ matching' >= 1 => applied' = 1..matching']_vars

\* A parallel update over more than a chunk of documents has resolved, for a
\* type with timestamps.
C20_Witness ==
  /\ qbOp = "update" /\ qbOutcome = "resolved" /\ parallel /\ timestamps
  /\ matching = BATCH_SIZE + 1
  /\ UpdatePayloadBuilt
  /\ qbResult.count = matching

\* C24: a preload of a to-many relation stored as a subcollection, over a
\* non-empty batch, resolves; it has queried the path of every parent's
\* subcollection once, and every entity has the relation loaded with the
\* documents of its own subcollection.
C24_SubcollectionPreload ==
  (relation = "HasManySubcollection" /\ plPc = "done" /\ models # <<>>)
    => /\ plOutcome = "resolved"
       /\ Len(plQueries) = Len(models)
       /\ \A k \in 1..Len(models) :
            /\ \E j \in 1..Len(plQueries) :
                 plQueries[j] = pathQuery(subcollectionPath(models[k]))
            /\ loaded[k] = HasManySubcollection_get(models[k])

\* The distinct non-empty foreign-key values among the owning entities.
DistinctKeys == {models[k].authorId : k \in 1..Len(models)} \ {Undefined, ""}

\* C25: a to-one preload that resolved has issued exactly ceil(D / 10)
\* queries, all against the related collection, D the number of distinct
\* non-empty foreign-key values among the N entities, whatever N is; with
\* D = 0 it has issued none and every entity has the relation loaded as null.
C25_BelongsToQueryCount ==
  (relation = "BelongsTo" /\ plPc = "done" /\ plOutcome = "resolved")
    => /\ Len(plQueries) = Ceil(Cardinality(DistinctKeys), InLimit)
       /\ \A j \in 1..Len(plQueries) : plQueries[j].on = "related"
       /\ DistinctKeys = {} =>
            (plQueries = <<>> /\ \A k \in 1..Len(models) : loaded[k] = Null)

C25_Witness ==
  /\ relation = "BelongsTo" /\ plPc = "done" /\ plOutcome = "resolved"
  /\ Len(models) = MaxModels
  /\ Cardinality(DistinctKeys) = 1
  /\ Len(plQueries) = 1

\* C28: no query of a relation's lazy get() or of the preload manager
\* carries an "in" predicate with more than 10 values.
C28_InPredicateAtMostTen ==
  \A q \in ElemsOf(plQueries) \cup ElemsOf(lazyQueries) :
    q.op = "in" => Len(q.values) <= InLimit

\* C29: the payload that save() sends to the store contains only data
\* fields of the entity: none of its keys is the name of a relation
\* registered on the entity's type.
C29_PayloadHasNoRelationKey ==
  (op = "save" /\ "updateDoc" \in ElemsOf(trace)) => ObjKeys(payload) \cap relNames = {}

\* C30: when the store's update rejects during save(), save() rejects with
\* the store's error, no after-hook runs, $original is left as it was, and
\* dirtyFields() reports exactly the fields that were dirty when save() was
\* called: every one of them still, and no other.
C30_RejectedSaveKeepsDirtySet ==
  [][(op = "save" /\ pc = "write" /\ pc' = "done" /\ error' = "storeError")
       => /\ outcome' = "rejected"
          /\ ElemsOf(trace') \cap AfterHooks = {}
          /\ original' = original
          /\ dirtyFields(props', original') = dirtyAtCall]_vars

\* C21: the batch update() and delete() of the query builder never invoke a
\* model hook, in either execution mode and for any number of matched
\* documents: whatever point the call has reached, the functions it has
\* invoked are store functions, none of them one of the eight hooks, and
\* the hook trace of the model instance stays empty.
C21_BatchRunsNoHooks ==
  /\ qbCalls \cap HookNames = {}
  /\ qbCalls \subseteq {"query", "getDocs", "updateDoc", "deleteDoc", "writeBatch",
                        "batch.update", "batch.delete", "batch.commit"}
  /\ qbOp # "none" => trace = <<>>

C21_Witness ==
  /\ qbOp \in {"update", "delete"} /\ qbOutcome = "resolved"
  /\ applied = 1..matching /\ matching > BATCH_SIZE
  /\ qbCalls \cap {"updateDoc", "deleteDoc", "batch.commit"} # {}
  /\ qbCalls \cap HookNames = {}

----------------------------------------------------------------------------
(* ManyToMany.attach / detach / sync / toggle on the relation of one        *)
(* parent, against a pivot collection that also holds rows of another.     *)
(* One call runs at a time; the attach() and detach() calls a sync starts  *)
(* run concurrently, every store call of theirs a step.  A call's          *)
(* rejection is reported when all its store calls have settled.            *)

Parent == [id |-> "u1", authorId |-> Undefined]
SingleIds == {"r1", "r2"}
SyncArgs == {<<>>, <<"r1">>, <<"r2", "r3">>, <<"r3", "r3">>}
NewIds == <<"n1", "n2", "n3", "n4", "n5", "n6", "n7", "n8">>

\* addDoc gives the document an id that no document of the collection has;
\* the model takes the first name that neither the collection nor the
\* collection the call started from uses.
newId ==
  LET used == {pivotStore[j].docId : j \in 1..Len(pivotStore)}
                \cup {mmBefore[j].docId : j \in 1..Len(mmBefore)}
  IN NewIds[CHOOSE j \in 1..Len(NewIds) :
              /\ NewIds[j] \notin used
              /\ \A h \in 1..(j - 1) : NewIds[h] \in used]

\* The pivot collections the model starts from: the row of the other parent
\* and any of the parent's rows.
StartRows ==
  LET row(d, u, r) == [docId |-> d, userId |-> u, roleId |-> r, assignedBy |-> "s1",
                       createdAt |-> 0]
  IN <<row("p1", "u1", "r1"), row("p3", "u1", "r2"), row("p4", "u2", "r1")>>

\* Faulty variant: detach() whose query lacks the relatedKey condition
detachQuery_anyRelated(store, relatedId) ==
  {store[j].docId : j \in {h \in 1..Len(store) : store[h].userId = Parent.id}}

\* detach(): the documents of where(foreignKey == localKeyValue) and
\* where(relatedKey == relatedId)
detachQuery(store, relatedId) ==
  {store[j].docId : j \in {h \in 1..Len(store) :
                             store[h].userId = Parent.id /\ store[h].roleId = relatedId}}

\* Faulty variant: sync() that attaches every desired id again
toAttach_all(relatedIds, existingIds) == relatedIds

\* sync(): relatedIds.filter(id => !existingIds.includes(id))
toAttach(relatedIds, existingIds) ==
  SelectSeq(relatedIds, LAMBDA r : ~Contains(existingIds, r))

\* sync(): existingIds.filter(id => !relatedIds.includes(id))
toDetach(relatedIds, existingIds) ==
  SelectSeq(existingIds, LAMBDA r : ~Contains(relatedIds, r))

\* attach(relatedId) up to its await of addDoc, and
\* detach(relatedId) up to its await of getDocs
newTasks(kind, rids) ==
  [j \in 1..Len(rids) |->
     [kind |-> kind, rid |-> rids[j], stage |-> IF kind = "attach" THEN "addDoc" ELSE "getDocs",
      left |-> {}, failed |-> FALSE]]

InitPivot ==
  /\ relNames = {}
  /\ timestamps = TRUE
  /\ docs = [d \in DocIds |-> NoDoc]
  /\ IdleEnt
  /\ IdleQb
  /\ relation = "ManyToMany"
  /\ ownerKey = "id"
  /\ pivotFields = <<>>
  /\ models = <<>>
  /\ relatedStore = <<>>
  /\ \E keep \in SUBSET (1..Len(StartRows)) :
       /\ Len(StartRows) \in keep
       /\ pivotStore = SelectSeq(StartRows, LAMBDA d : \E j \in keep : StartRows[j] = d)
  /\ plPc = "idle"
  /\ chunks = <<>>
  /\ allPivots = <<>>
  /\ allRelated = <<>>
  /\ loaded = <<>>
  /\ lazy = <<>>
  /\ lazyNext = 1
  /\ plOutcome = "none"
  /\ plError = "none"
  /\ plQueries = <<>>
  /\ lazyQueries = <<>>
  /\ arrayKey = <<>>
  /\ IdleMm
  /\ IdleBd
  /\ IdleDb

\* What every call sets when it starts.
Started(kind, rids) ==
  /\ mmPc \in {"idle", "done"}
  /\ mmCalls < MaxCalls
  /\ mmPrev' = IF mmOp = "detach" /\ mmOutcome = "resolved" THEN mmArg[1] ELSE "none"
  /\ mmOp' = kind
  /\ mmArg' = rids
  /\ mmBefore' = pivotStore
  /\ mmOutcome' = "none"
  /\ mmResult' = "none"
  /\ UNCHANGED <<pivotStore, mmCalls>>
  /\ mmOnly

\* relation.attach(relatedId), no pivotData given
CallAttach(relatedId) ==
  /\ Started("attach", <<relatedId>>)
  /\ tasks' = newTasks("attach", <<relatedId>>)
  /\ mmPc' = "tasks"

\* relation.detach(relatedId)
CallDetach(relatedId) ==
  /\ Started("detach", <<relatedId>>)
  /\ tasks' = newTasks("detach", <<relatedId>>)
  /\ mmPc' = "tasks"

\* relation.sync(relatedIds), up to its await of queryPivot()
CallSync(relatedIds) ==
  /\ Started("sync", relatedIds)
  /\ tasks' = <<>>
  /\ mmPc' = "query"

\* relation.toggle(relatedId), up to its await of queryPivot()
CallToggle(relatedId) ==
  /\ Started("toggle", <<relatedId>>)
  /\ tasks' = <<>>
  /\ mmPc' = "query"

\* queryPivot() resolves: sync starts its attach() and detach() calls
\* together, toggle the one it chose.
PivotQueryResolves ==
  /\ mmPc = "query"
  /\ LET existingIds == pluck(queryPivot(Parent), "roleId")
     IN tasks' = IF mmOp = "sync"
                   THEN newTasks("attach", toAttach(mmArg, existingIds))
                          \o newTasks("detach", toDetach(mmArg, existingIds))
                   ELSE IF Contains(existingIds, mmArg[1])
                          THEN newTasks("detach", mmArg)
                          ELSE newTasks("attach", mmArg)
  /\ mmPc' = "tasks"
  /\ UNCHANGED <<pivotStore, mmOp, mmArg, mmBefore, mmOutcome, mmResult, mmCalls,
                 mmPrev>>
  /\ mmOnly

\* attach(): addDoc resolves, the row is in the collection under a new id.
TaskAddDoc(t) ==
  /\ mmPc = "tasks"
  /\ tasks[t].stage = "addDoc"
  /\ pivotStore' = Append(pivotStore,
                          [docId |-> newId, userId |-> Parent.id,
                           roleId |-> tasks[t].rid, assignedBy |-> Undefined, createdAt |-> now])
  /\ tasks' = [tasks EXCEPT ![t].stage = "done"]
  /\ UNCHANGED <<mmOp, mmArg, mmPc, mmBefore, mmOutcome, mmResult, mmCalls, mmPrev>>
  /\ mmOnly

\* detach(): getDocs resolves and deleteDoc is called on every document of
\* the snapshot; Promise.all of none resolves at once.
TaskGetDocs(t) ==
  /\ mmPc = "tasks"
  /\ tasks[t].stage = "getDocs"
  /\ LET found == detachQuery(pivotStore, tasks[t].rid)
     IN tasks' = [tasks EXCEPT ![t].left = found,
                               ![t].stage = IF found = {} THEN "done" ELSE "delete"]
  /\ UNCHANGED <<pivotStore, mmOp, mmArg, mmPc, mmBefore, mmOutcome, mmResult, mmCalls,
                 mmPrev>>
  /\ mmOnly

\* detach(): one deleteDoc resolves (deleting a document that is already
\* gone succeeds too).
TaskDeleteDoc(t, d) ==
  /\ mmPc = "tasks"
  /\ tasks[t].stage = "delete"
  /\ d \in tasks[t].left
  /\ pivotStore' = SelectSeq(pivotStore, LAMBDA e : e.docId # d)
  /\ tasks' = [tasks EXCEPT ![t].left = @ \ {d},
                            ![t].stage = IF tasks[t].left = {d}
                                           THEN IF tasks[t].failed THEN "failed" ELSE "done"
                                           ELSE "delete"]
  /\ UNCHANGED <<mmOp, mmArg, mmPc, mmBefore, mmOutcome, mmResult, mmCalls, mmPrev>>
  /\ mmOnly

\* A store call of an attach() or detach() rejects: addDoc, getDocs, or one
\* of the deleteDoc calls, whose document stays.  The store refuses at most
\* one request of a call.
TaskFails(t) ==
  /\ mmPc = "tasks"
  /\ tasks[t].stage \in {"addDoc", "getDocs", "delete"}
  /\ \A u \in 1..Len(tasks) : ~tasks[u].failed
  /\ IF tasks[t].stage = "delete"
       THEN \E d \in tasks[t].left :
              tasks' = [tasks EXCEPT ![t].left = @ \ {d}, ![t].failed = TRUE,
                                     ![t].stage = IF tasks[t].left = {d} THEN "failed"
                                                  ELSE "delete"]
       ELSE tasks' = [tasks EXCEPT ![t].failed = TRUE, ![t].stage = "failed"]
  /\ UNCHANGED <<pivotStore, mmOp, mmArg, mmPc, mmBefore, mmOutcome, mmResult, mmCalls,
                 mmPrev>>
  /\ mmOnly

\* The queryPivot() of sync or toggle rejects.
PivotQueryRejects ==
  /\ mmPc = "query"
  /\ mmOutcome' = "rejected"
  /\ mmPc' = "done"
  /\ mmCalls' = mmCalls + 1
  /\ UNCHANGED <<pivotStore, mmOp, mmArg, tasks, mmBefore, mmResult, mmPrev>>
  /\ mmOnly

\* Every store call of the call has settled: it resolves, or rejects when
\* one of them was refused; toggle returns false after detach, true after attach.
PivotReturn ==
  /\ mmPc = "tasks"
  /\ \A t \in 1..Len(tasks) : tasks[t].stage \in {"done", "failed"}
  /\ LET ok == \A t \in 1..Len(tasks) : ~tasks[t].failed
     IN /\ mmOutcome' = IF ok THEN "resolved" ELSE "rejected"
        /\ mmResult' = IF ok /\ mmOp = "toggle"
                         THEN IF tasks[1].kind = "attach" THEN "attached" ELSE "detached"
                         ELSE "none"
  /\ mmCalls' = mmCalls + 1
  /\ mmPc' = "done"
  /\ UNCHANGED <<pivotStore, mmOp, mmArg, tasks, mmBefore, mmPrev>>
  /\ mmOnly

NextPivot ==
  \/ \E r \in SingleIds : CallAttach(r)
  \/ \E r \in SingleIds : CallDetach(r)
  \/ \E rs \in SyncArgs : CallSync(rs)
  \/ \E r \in SingleIds : CallToggle(r)
  \/ PivotQueryResolves
  \/ PivotQueryRejects
  \/ \E t \in 1..Len(tasks) : TaskAddDoc(t)
  \/ \E t \in 1..Len(tasks) : TaskGetDocs(t)
  \/ \E t \in 1..Len(tasks), d \in {"p1", "p3", "p4"} \cup ElemsOf(NewIds) :
       TaskDeleteDoc(t, d)
  \/ \E t \in 1..Len(tasks) : TaskFails(t)
  \/ PivotReturn

SpecPivot == InitPivot /\ [][NextPivot]_vars

\* The rows of a collection that link the parent to the related id.
Linking(store, relatedId) ==
  SelectSeq(store, LAMBDA d : d.userId = Parent.id /\ d.roleId = relatedId)

\* C12: a detach(relatedId) that resolved has removed exactly the rows that
\* linked the parent to relatedId, every row of another related id or of
\* another parent is still there; a second detach(relatedId) right after a
\* resolved one removes no row, and it rejects only if the store refused a
\* request.
C12_DetachIdempotent ==
  (mmPc = "done" /\ mmOp = "detach") =>
     /\ mmOutcome = "resolved" =>
          /\ pivotStore = SelectSeq(mmBefore, LAMBDA d : ~(d.userId = Parent.id
                                                             /\ d.roleId = mmArg[1]))
          /\ mmPrev = mmArg[1] => pivotStore = mmBefore
     /\ mmOutcome = "rejected" => \E t \in 1..Len(tasks) : tasks[t].failed

\* A second detach of the same related id has resolved, on a collection
\* that holds another link of the parent and a row of another parent.
C12_Witness ==
  /\ mmPc = "done" /\ mmOp = "detach" /\ mmOutcome = "resolved"
  /\ mmPrev = mmArg[1]
  /\ mmCalls = 2
  /\ \E j \in 1..Len(pivotStore) :
       pivotStore[j].userId = Parent.id /\ pivotStore[j].roleId # mmArg[1]
  /\ \E j \in 1..Len(pivotStore) : pivotStore[j].userId # Parent.id

\* C13: a sync(relatedIds) that resolved leaves the parent linked to exactly
\* the ids of relatedIds; the rows of the ids that were linked and are in
\* relatedIds are the rows that were there (none removed, none added), and
\* the rows of other parents are the ones that were there.
C13_SyncSetsLinks ==
  (mmPc = "done" /\ mmOp = "sync" /\ mmOutcome = "resolved") =>
     /\ ElemsOf(pluck(queryPivot(Parent), "roleId")) = ElemsOf(mmArg)
     /\ \A r \in ElemsOf(mmArg) :
          Linking(mmBefore, r) # <<>> => Linking(pivotStore, r) = Linking(mmBefore, r)
     /\ SelectSeq(pivotStore, LAMBDA d : d.userId # Parent.id)
          = SelectSeq(mmBefore, LAMBDA d : d.userId # Parent.id)

\* A sync has resolved that had one id to attach, one to detach and one to
\* keep, next to a row of another parent.
C13_Witness ==
  /\ mmPc = "done" /\ mmOp = "sync" /\ mmOutcome = "resolved"
  /\ \E r \in ElemsOf(mmArg) : Linking(mmBefore, r) = <<>>
  /\ \E r \in ElemsOf(mmArg) : Linking(mmBefore, r) # <<>>
  /\ \E j \in 1..Len(mmBefore) :
       mmBefore[j].userId = Parent.id /\ mmBefore[j].roleId \notin ElemsOf(mmArg)
  /\ \E j \in 1..Len(mmBefore) : mmBefore[j].userId # Parent.id

\* C27: after any sequence of attach, detach, sync and toggle calls on the
\* parent, each awaited before the next starts, the pivot collection holds
\* at most one row for each pair of the parent's key and a related id.
C27_OneRowPerLink ==
  mmPc \in {"idle", "done"}
    => \A relatedId \in {"r1", "r2", "r3"} : Len(Linking(pivotStore, relatedId)) <= 1

----------------------------------------------------------------------------
(* The query builder: the chainable methods push on this.constraints, get() *)
(* hands the list to the store.                                             *)

\* The methods of class QueryBuilder.
QueryBuilderMethods ==
  {"where", "whereEquals", "whereNotEquals", "whereGreaterThan", "whereGreaterThanOrEqual",
   "whereLessThan", "whereLessThanOrEqual", "whereIn", "whereNotIn", "whereArrayContains",
   "whereArrayContainsAny", "orderBy", "limit", "startAfter", "preload", "get", "first",
   "firstOrFail", "count", "exists", "update", "delete", "executeBatches"}

\* where(field, operator, value), orderBy(field), limit(count) as the caller
\* may chain them.
Chainable ==
  {[kind |-> "where", arg |-> 18], [kind |-> "orderBy", arg |-> 0], [kind |-> "limit", arg |-> 10]}

\* limit(count): the constraint it pushes
limit(count) == [kind |-> "limit", arg |-> count]

\* What is recorded of a query when method hands it to getDocs.
started(method) ==
  [method |-> method, chained |-> chained, duringFirst |-> firstPc = "awaiting"]

InitBuilder ==
  /\ relNames = {}
  /\ timestamps = TRUE
  /\ docs = [d \in DocIds |-> NoDoc]
  /\ IdleEnt
  /\ IdleQb
  /\ IdlePl
  /\ IdleMm
  /\ IdleBd
  /\ IdleDb

\* builder.where(...), .orderBy(...), .limit(count): this.constraints.push(...); return this
Chain(c) ==
  /\ bdPc \in {"idle", "done"}
  /\ bdOutcome # "threw"
  /\ Len(constraints) < MaxConstraints
  /\ firstPc # "awaiting"
  /\ constraints' = Append(constraints, c)
  /\ chained' = Append(chained, c)
  /\ bdCall' = c.kind
  /\ bdPc' = "idle"
  /\ bdOutcome' = "none"
  /\ bdError' = "none"
  /\ UNCHANGED <<bdIssued, bdStarted>>
  /\ UNCHANGED <<firstPc, originalConstraints, firstOutcome>>
  /\ bdOnly

\* builder.name(...) for a name the caller takes from the documentation: the
\* call of a property the class does not define throws a TypeError where
\* it is evaluated, and the rest of the chain never runs.
Invoke(name) ==
  /\ bdPc \in {"idle", "done"}
  /\ bdOutcome # "threw"
  /\ name \notin QueryBuilderMethods
  /\ bdCall' = name
  /\ bdPc' = "done"
  /\ bdOutcome' = "threw"
  /\ bdError' = "TypeError"
  /\ UNCHANGED <<constraints, bdIssued, chained, bdStarted>>
  /\ UNCHANGED <<firstPc, originalConstraints, firstOutcome>>
  /\ bdOnly

\* builder.get() up to its await of getDocs(query(collectionRef, ...this.constraints))
CallGet ==
  /\ bdPc \in {"idle", "done"}
  /\ bdOutcome # "threw"
  /\ Len(bdIssued) < MaxGets
  /\ bdCall' = "get"
  /\ bdIssued' = Append(bdIssued, constraints)
  /\ bdStarted' = Append(bdStarted, started("get"))
  /\ bdPc' = "getDocs"
  /\ bdOutcome' = "none"
  /\ bdError' = "none"
  /\ UNCHANGED <<constraints, chained>>
  /\ UNCHANGED <<firstPc, originalConstraints, firstOutcome>>
  /\ bdOnly

\* builder.update(data) / builder.delete() up to the await of
\* getDocs(query(collectionRef, ...this.constraints))
CallWrite(kind) ==
  /\ bdPc \in {"idle", "done"}
  /\ bdOutcome # "threw"
  /\ Len(bdIssued) < MaxGets
  /\ bdCall' = kind
  /\ bdIssued' = Append(bdIssued, constraints)
  /\ bdStarted' = Append(bdStarted, started(kind))
  /\ bdPc' = "getDocs"
  /\ bdOutcome' = "none"
  /\ bdError' = "none"
  /\ UNCHANGED <<constraints, chained>>
  /\ UNCHANGED <<firstPc, originalConstraints, firstOutcome>>
  /\ bdOnly

\* builder.first() up to the await inside its get(): the copy of the
\* constraints, this.limit(1), getDocs(query(collectionRef, ...this.constraints))
CallFirst ==
  /\ firstPc \in {"idle", "done"}
  /\ bdPc \in {"idle", "done"}
  /\ bdOutcome # "threw"
  /\ Len(bdIssued) < MaxGets
  /\ originalConstraints' = constraints
  /\ constraints' = Append(constraints, limit(1))
  /\ bdIssued' = Append(bdIssued, Append(constraints, limit(1)))
  /\ bdStarted' = Append(bdStarted, started("first"))
  /\ firstPc' = "awaiting"
  /\ firstOutcome' = "none"
  /\ UNCHANGED <<bdCall, bdPc, bdOutcome, bdError, chained>>
  /\ bdOnly

\* first(): its get() resolves, this.constraints = originalConstraints, return.
FirstGetResolves ==
  /\ firstPc = "awaiting"
  /\ constraints' = originalConstraints
  /\ firstPc' = "done"
  /\ firstOutcome' = "resolved"
  /\ UNCHANGED <<bdCall, bdPc, bdIssued, bdOutcome, bdError, chained, bdStarted,
                 originalConstraints>>
  /\ bdOnly

\* first(): its get() rejects; the error leaves first() at the await, the
\* statements after it do not run.
FirstGetRejects ==
  /\ firstPc = "awaiting"
  /\ firstPc' = "done"
  /\ firstOutcome' = "rejected"
  /\ UNCHANGED <<constraints, bdCall, bdPc, bdIssued, bdOutcome, bdError, chained, bdStarted,
                 originalConstraints>>
  /\ bdOnly

\* getDocs resolves (no preload registered): get() resolves with the entities.
BuilderGetResolves ==
  /\ bdPc = "getDocs"
  /\ bdPc' = "done"
  /\ bdOutcome' = "resolved"
  /\ UNCHANGED <<constraints, bdCall, bdIssued, bdError, chained, bdStarted>>
  /\ UNCHANGED <<firstPc, originalConstraints, firstOutcome>>
  /\ bdOnly

\* getDocs rejects: get() rejects with the store's error.
BuilderGetRejects ==
  /\ bdPc = "getDocs"
  /\ bdPc' = "done"
  /\ bdOutcome' = "rejected"
  /\ bdError' = "store"
  /\ UNCHANGED <<constraints, bdCall, bdIssued, chained, bdStarted>>
  /\ UNCHANGED <<firstPc, originalConstraints, firstOutcome>>
  /\ bdOnly

NextBuilder ==
  \/ \E c \in Chainable : Chain(c)
  \/ \E name \in {"offset"} : Invoke(name)
  \/ CallGet
  \/ \E kind \in {"update", "delete"} : CallWrite(kind)
  \/ CallFirst
  \/ FirstGetResolves
  \/ FirstGetRejects
  \/ BuilderGetResolves
  \/ BuilderGetRejects

SpecBuilder == InitBuilder /\ [][NextBuilder]_vars

\* C14: a chain that calls offset(n) on a builder without a limit rejects
\* with InvalidOffsetUsage, and no query went to the store for it.
C14_OffsetNeedsLimit ==
  (bdCall = "offset" /\ bdPc = "done"
     /\ \A j \in 1..Len(constraints) : constraints[j].kind # "limit")
    => (bdOutcome = "rejected" /\ bdError = "InvalidOffsetUsage")

\* C23: first() hands the store the builder's constraints followed by
\* limit(1), and when first() settles, resolved or rejected, the builder's
\* constraint list is again the list it had before the call.
C23_FirstRestoresConstraints ==
  [][/\ (firstPc # "awaiting" /\ firstPc' = "awaiting")
          => bdIssued'[Len(bdIssued')] = Append(constraints, limit(1))
     /\ (firstPc = "awaiting" /\ firstPc' = "done")
          => constraints' = originalConstraints]_vars

\* C26: a get(), update() or delete() started on the builder while a first()
\* is awaiting the store hands the store exactly the constraints the caller
\* had chained when it was called, without the limit(1) of first().
C26_FirstLimitInvisible ==
  \A j \in 1..Len(bdStarted) :
    (bdStarted[j].duringFirst /\ bdStarted[j].method # "first")
      => bdIssued[j] = bdStarted[j].chained

----------------------------------------------------------------------------
(* The Database singleton: initialize, getFirestore, getApp,               *)
(* isInitialized, reset.  The methods are synchronous, each one step.      *)
(* initializeApp and getFirestore of the SDK either return a handle or     *)
(* throw.  Handles are numbered from 1; NoHandle is null.                  *)

NoHandle == 0
NotInitialized == "Database not initialized"
ConfigIncomplete == "Firebase configuration is incomplete"
Configs == {"undefined", "noApiKey", "noProjectId", "complete"}

\* ensureConfig(config): TRUE when it throws
ensureConfigThrows(config) == config # "complete"

\* What getFirestore() does in the current state
getFirestore ==
  IF firestore = NoHandle
    THEN [outcome |-> "threw", value |-> NotInitialized]
    ELSE [outcome |-> "returned", value |-> firestore]

\* What getApp() does in the current state
getApp ==
  IF app = NoHandle
    THEN [outcome |-> "threw", value |-> NotInitialized]
    ELSE [outcome |-> "returned", value |-> app]

\* What isInitialized() returns in the current state
isInitialized == initialized

InitDatabase ==
  /\ relNames = {}
  /\ timestamps = TRUE
  /\ docs = [d \in DocIds |-> NoDoc]
  /\ IdleEnt
  /\ IdleQb
  /\ IdlePl
  /\ IdleMm
  /\ IdleBd
  /\ IdleDb

\* db.initialize(config) while this.initialized: console.warn and return.
InitializeAgain(config) ==
  /\ initialized
  /\ dbCall' = <<"initialize", config>>
  /\ dbOutcome' = "returned"
  /\ dbValue' = "none"
  /\ dbConsole' = "warn"
  /\ UNCHANGED <<app, firestore, initialized, dbCreated>>
  /\ dbOnly

\* db.initialize(config), ensureConfig throws: console.error and rethrow.
InitializeBadConfig(config) ==
  /\ ~initialized
  /\ ensureConfigThrows(config)
  /\ dbCall' = <<"initialize", config>>
  /\ dbOutcome' = "threw"
  /\ dbValue' = ConfigIncomplete
  /\ dbConsole' = "error"
  /\ UNCHANGED <<app, firestore, initialized, dbCreated>>
  /\ dbOnly

\* db.initialize(config), initializeApp throws: console.error and rethrow.
InitializeAppThrows ==
  /\ ~initialized
  /\ dbCall' = <<"initialize", "complete">>
  /\ dbOutcome' = "threw"
  /\ dbValue' = "initializeApp"
  /\ dbConsole' = "error"
  /\ UNCHANGED <<app, firestore, initialized, dbCreated>>
  /\ dbOnly

\* db.initialize(config), initializeApp returns and this.app is assigned, then
\* getFirestore(this.app) throws: console.error and rethrow.
InitializeFirestoreThrows ==
  /\ ~initialized
  /\ dbCreated < MaxApps
  /\ dbCreated' = dbCreated + 1
  /\ app' = dbCreated + 1
  /\ dbCall' = <<"initialize", "complete">>
  /\ dbOutcome' = "threw"
  /\ dbValue' = "getFirestore"
  /\ dbConsole' = "error"
  /\ UNCHANGED <<firestore, initialized>>
  /\ dbOnly

\* db.initialize(config), both SDK calls return: app, firestore and the flag
\* are set, console.log.
InitializeSucceeds ==
  /\ ~initialized
  /\ dbCreated < MaxApps
  /\ dbCreated' = dbCreated + 1
  /\ app' = dbCreated + 1
  /\ firestore' = dbCreated + 1
  /\ initialized' = TRUE
  /\ dbCall' = <<"initialize", "complete">>
  /\ dbOutcome' = "returned"
  /\ dbValue' = "none"
  /\ dbConsole' = "log"
  /\ dbOnly

\* db.getFirestore()
CallGetFirestore ==
  /\ dbCall' = <<"getFirestore">>
  /\ dbOutcome' = getFirestore.outcome
  /\ dbValue' = getFirestore.value
  /\ dbConsole' = "none"
  /\ UNCHANGED <<app, firestore, initialized, dbCreated>>
  /\ dbOnly

\* db.getApp()
CallGetApp ==
  /\ dbCall' = <<"getApp">>
  /\ dbOutcome' = getApp.outcome
  /\ dbValue' = getApp.value
  /\ dbConsole' = "none"
  /\ UNCHANGED <<app, firestore, initialized, dbCreated>>
  /\ dbOnly

\* db.isInitialized()
CallIsInitialized ==
  /\ dbCall' = <<"isInitialized">>
  /\ dbOutcome' = "returned"
  /\ dbValue' = isInitialized
  /\ dbConsole' = "none"
  /\ UNCHANGED <<app, firestore, initialized, dbCreated>>
  /\ dbOnly

\* db.reset()
Reset ==
  /\ app' = NoHandle
  /\ firestore' = NoHandle
  /\ initialized' = FALSE
  /\ dbCall' = <<"reset">>
  /\ dbOutcome' = "returned"
  /\ dbValue' = "none"
  /\ dbConsole' = "none"
  /\ UNCHANGED dbCreated
  /\ dbOnly

NextDatabase ==
  \/ \E config \in Configs : InitializeAgain(config)
  \/ \E config \in Configs : InitializeBadConfig(config)
  \/ InitializeAppThrows
  \/ InitializeFirestoreThrows
  \/ InitializeSucceeds
  \/ CallGetFirestore
  \/ CallGetApp
  \/ CallIsInitialized
  \/ Reset

SpecDatabase == InitDatabase /\ [][NextDatabase]_vars

\* C22: in every state reached through initialize (successful or failing)
\* and reset calls, isInitialized() is true exactly when getFirestore() and
\* getApp() both return a handle, and when it is false both of them raise
\* the not-initialized error.
C22_HandlesFollowFlag ==
  /\ isInitialized <=> (getFirestore.outcome = "returned" /\ getApp.outcome = "returned")
  /\ ~isInitialized =>
       (getFirestore = [outcome |-> "threw", value |-> NotInitialized]
          /\ getApp = [outcome |-> "threw", value |-> NotInitialized])

====
